---- MODULE Spec2Model ----
(***************************************************************************)
(* resume2latex: a JSON resume record is turned into a LaTeX document.     *)
(*                                                                         *)
(* Text is modelled as Python models it: a str is a sequence of            *)
(* characters, here a sequence of one-character strings, so that           *)
(* str.replace, str.join, str.strip, str.count, re.sub and the "in" test   *)
(* on substrings are computed character by character.                      *)
(***************************************************************************)
EXTENDS Integers, Sequences, FiniteSets, TLC

VARIABLES
  pc,             \* the position of the run that is being followed
  text,           \* escape_latex: its argument
  escaped,        \* escape_latex: its return value
  resume_data,    \* the record json.load returned
  experiences,    \* generate_professional_experience: its argument
  projects,       \* generate_project_experience: its argument
  education,      \* generate_education: its argument
  additional_info,\* generate_additional_information: its argument
  latex_content,  \* the text a builder or generate_resume_latex returned
  escape_calls,   \* the arguments escape_latex was called with, in call order
  args_output,    \* main: args.output (-o), None when the flag is absent
  output_file,    \* main: the file name the document is written to
  file_content,   \* validate_latex_syntax: what the file named by its argument holds
  content_no_comments, \* validate_latex_syntax: content_no_comments
  issues,         \* validate_latex_syntax: issues
  valid,          \* validate_latex_syntax: its return value
  latex_file,     \* compile_latex_to_pdf: its argument, the path of the source
  environment,    \* what the machine holds when compile_latex_to_pdf is called
  pdflatex_path,  \* compile_latex_to_pdf: pdflatex_path
  user_input,     \* compile_latex_to_pdf: what input() gave at the prompt
  fs,             \* the files that exist, each as << directory, stem, suffix >>
  dirs,           \* the directories that exist
  cwd,            \* os.getcwd(): the current working directory of the process
  temp_dir,       \* compile_latex_to_pdf: temp_dir
  original_dir,   \* compile_latex_to_pdf: original_dir
  result,         \* compile_latex_to_pdf: result of subprocess.run
  subprocess_calls, \* the commands handed to subprocess.run, in call order
  relayed,        \* what was printed of the compiler's return code and output
  returned,       \* compile_latex_to_pdf: how the call ended
  args_validate,  \* main: args.validate (-v)
  args_pdf,       \* main: args.pdf (-p)
  args_check,     \* main: args.check (-c)
  args_input_file,\* main: args.input_file, None when no file was named
  json_file,      \* main: what the file named by args.input_file holds
  exit_code,      \* the exit status of the process
  reports         \* main: what was printed for the user about errors and success

\* The variables of validate_latex_syntax.
checker_vars == << file_content, content_no_comments, issues, valid >>

\* The variables of compile_latex_to_pdf.
compile_vars == << latex_file, environment, pdflatex_path, user_input, fs, dirs, cwd,
                   temp_dir, original_dir, result, subprocess_calls, relayed, returned >>

\* The flags, the input and the outcome of main.
main_vars == << args_validate, args_pdf, args_check, args_input_file, json_file,
                exit_code, reports >>

vars == << pc, text, escaped, resume_data, experiences, projects, education,
           additional_info, latex_content, escape_calls, args_output, output_file,
           checker_vars, compile_vars, main_vars >>

\* Python's None; no text, list or record of the model equals it.
None == << "None", 0 >>

(***************************************************************************)
(* The literal text of the source: the header, the footer and the pieces   *)
(* of the builders' f-strings between their slots.                         *)
(***************************************************************************)

\* generate_latex_header, lines 98-206: the static header block
\*   (the literal of lines 98-206, character by character)
generate_latex_header ==
  <<
    "\\", "d", "o", "c", "u", "m", "e", "n", "t", "c", "l", "a", "s", "s", "[", "l",
    "e", "t", "t", "e", "r", "p", "a", "p", "e", "r", ",", "1", "1", "p", "t", "]",
    "{", "a", "r", "t", "i", "c", "l", "e", "}", "\n", "\n", "%", "-", "-", "-", "-",
    "-", "-", "-", "-", "-", "-", " ", "P", "A", "C", "K", "A", "G", "E", "S", " ",
    "-", "-", "-", "-", "-", "-", "-", "-", "-", "-", "\n", "\\", "u", "s", "e", "p",
    "a", "c", "k", "a", "g", "e", "{", "l", "a", "t", "e", "x", "s", "y", "m", "}",
    "\n", "\\", "u", "s", "e", "p", "a", "c", "k", "a", "g", "e", "[", "e", "m", "p",
    "t", "y", "]", "{", "f", "u", "l", "l", "p", "a", "g", "e", "}", "\n", "\\", "u",
    "s", "e", "p", "a", "c", "k", "a", "g", "e", "{", "t", "i", "t", "l", "e", "s",
    "e", "c", "}", "\n", "\\", "u", "s", "e", "p", "a", "c", "k", "a", "g", "e", "{",
    "t", "e", "x", "t", "c", "o", "m", "p", "}", " ", " ", "%", " ", "A", "l", "t",
    "e", "r", "n", "a", "t", "i", "v", "e", " ", "t", "o", " ", "m", "a", "r", "v",
    "o", "s", "y", "m", " ", "f", "o", "r", " ", "s", "y", "m", "b", "o", "l", "s",
    "\n", "\\", "u", "s", "e", "p", "a", "c", "k", "a", "g", "e", "[", "u", "s", "e",
    "n", "a", "m", "e", "s", ",", "d", "v", "i", "p", "s", "n", "a", "m", "e", "s",
    "]", "{", "c", "o", "l", "o", "r", "}", "\n", "\\", "u", "s", "e", "p", "a", "c",
    "k", "a", "g", "e", "{", "t", "i", "m", "e", "s", "}", " ", " ", " ", " ", "%",
    " ", "m", "a", "i", "n", " ", "t", "e", "x", "t", " ", "i", "n", " ", "T", "i",
    "m", "e", "s", " ", "N", "e", "w", " ", "R", "o", "m", "a", "n", "\n", "\\", "u",
    "s", "e", "p", "a", "c", "k", "a", "g", "e", "{", "v", "e", "r", "b", "a", "t",
    "i", "m", "}", "\n", "\\", "u", "s", "e", "p", "a", "c", "k", "a", "g", "e", "{",
    "e", "n", "u", "m", "i", "t", "e", "m", "}", "\n", "\\", "u", "s", "e", "p", "a",
    "c", "k", "a", "g", "e", "[", "h", "i", "d", "e", "l", "i", "n", "k", "s", "]",
    "{", "h", "y", "p", "e", "r", "r", "e", "f", "}", "\n", "\\", "u", "s", "e", "p",
    "a", "c", "k", "a", "g", "e", "{", "f", "a", "n", "c", "y", "h", "d", "r", "}",
    "\n", "\\", "u", "s", "e", "p", "a", "c", "k", "a", "g", "e", "[", "e", "n", "g",
    "l", "i", "s", "h", "]", "{", "b", "a", "b", "e", "l", "}", "\n", "\\", "u", "s",
    "e", "p", "a", "c", "k", "a", "g", "e", "{", "t", "a", "b", "u", "l", "a", "r",
    "x", "}", "\n", "\\", "u", "s", "e", "p", "a", "c", "k", "a", "g", "e", "{", "h",
    "y", "p", "h", "e", "n", "a", "t", "}", "\n", "\n", "%", "-", "-", "-", "-", "-",
    "-", "-", "-", "-", "-", " ", "P", "A", "G", "E", " ", "S", "E", "T", "U", "P",
    " ", "-", "-", "-", "-", "-", "-", "-", "-", "-", "-", "\n", "\\", "p", "a", "g",
    "e", "s", "t", "y", "l", "e", "{", "f", "a", "n", "c", "y", "}", "\n", "\\", "f",
    "a", "n", "c", "y", "h", "f", "{", "}", " ", "%", " ", "c", "l", "e", "a", "r",
    " ", "a", "l", "l", " ", "h", "e", "a", "d", "e", "r", " ", "a", "n", "d", " ",
    "f", "o", "o", "t", "e", "r", " ", "f", "i", "e", "l", "d", "s", "\n", "\\", "f",
    "a", "n", "c", "y", "f", "o", "o", "t", "{", "}", "\n", "\\", "r", "e", "n", "e",
    "w", "c", "o", "m", "m", "a", "n", "d", "{", "\\", "h", "e", "a", "d", "r", "u",
    "l", "e", "w", "i", "d", "t", "h", "}", "{", "0", "p", "t", "}", "\n", "\\", "r",
    "e", "n", "e", "w", "c", "o", "m", "m", "a", "n", "d", "{", "\\", "f", "o", "o",
    "t", "r", "u", "l", "e", "w", "i", "d", "t", "h", "}", "{", "0", "p", "t", "}",
    "\n", "\n", "%", " ", "A", "d", "j", "u", "s", "t", " ", "m", "a", "r", "g", "i",
    "n", "s", "\n", "\\", "a", "d", "d", "t", "o", "l", "e", "n", "g", "t", "h", "{",
    "\\", "o", "d", "d", "s", "i", "d", "e", "m", "a", "r", "g", "i", "n", "}", "{",
    "-", "0", ".", "5", "i", "n", "}", "\n", "\\", "a", "d", "d", "t", "o", "l", "e",
    "n", "g", "t", "h", "{", "\\", "e", "v", "e", "n", "s", "i", "d", "e", "m", "a",
    "r", "g", "i", "n", "}", "{", "-", "0", ".", "5", "i", "n", "}", "\n", "\\", "a",
    "d", "d", "t", "o", "l", "e", "n", "g", "t", "h", "{", "\\", "t", "e", "x", "t",
    "w", "i", "d", "t", "h", "}", "{", "1", "i", "n", "}", "\n", "\\", "a", "d", "d",
    "t", "o", "l", "e", "n", "g", "t", "h", "{", "\\", "t", "o", "p", "m", "a", "r",
    "g", "i", "n", "}", "{", "-", ".", "5", "i", "n", "}", "\n", "\\", "a", "d", "d",
    "t", "o", "l", "e", "n", "g", "t", "h", "{", "\\", "t", "e", "x", "t", "h", "e",
    "i", "g", "h", "t", "}", "{", "1", ".", "0", "i", "n", "}", "\n", "\n", "\\", "u",
    "r", "l", "s", "t", "y", "l", "e", "{", "s", "a", "m", "e", "}", "\n", "\\", "r",
    "a", "g", "g", "e", "d", "b", "o", "t", "t", "o", "m", "\n", "\\", "r", "a", "g",
    "g", "e", "d", "r", "i", "g", "h", "t", "\n", "\\", "s", "e", "t", "l", "e", "n",
    "g", "t", "h", "{", "\\", "t", "a", "b", "c", "o", "l", "s", "e", "p", "}", "{",
    "0", "i", "n", "}", "\n", "\n", "%", "-", "-", "-", "-", "-", "-", "-", "-", "-",
    "-", " ", "S", "E", "C", "T", "I", "O", "N", " ", "F", "O", "R", "M", "A", "T",
    "T", "I", "N", "G", " ", "-", "-", "-", "-", "-", "-", "-", "-", "-", "-", "\n",
    "\\", "t", "i", "t", "l", "e", "f", "o", "r", "m", "a", "t", "{", "\\", "s", "e",
    "c", "t", "i", "o", "n", "}", "{", "\n", " ", " ", "\\", "v", "s", "p", "a", "c",
    "e", "{", "-", "4", "p", "t", "}", "\\", "s", "c", "s", "h", "a", "p", "e", "\\",
    "r", "a", "g", "g", "e", "d", "r", "i", "g", "h", "t", "\\", "l", "a", "r", "g",
    "e", "\n", "}", "{", "}", "{", "0", "e", "m", "}", "{", "}", "[", "\\", "c", "o",
    "l", "o", "r", "{", "b", "l", "a", "c", "k", "}", "\\", "t", "i", "t", "l", "e",
    "r", "u", "l", "e", " ", "\\", "v", "s", "p", "a", "c", "e", "{", "-", "5", "p",
    "t", "}", "]", "\n", "\n", "%", " ", "E", "n", "s", "u", "r", "e", " ", "t", "h",
    "a", "t", " ", "g", "e", "n", "e", "r", "a", "t", "e", " ", "p", "d", "f", " ",
    "i", "s", " ", "m", "a", "c", "h", "i", "n", "e", " ", "r", "e", "a", "d", "a",
    "b", "l", "e", "/", "A", "T", "S", " ", "p", "a", "r", "s", "a", "b", "l", "e",
    "\n", "\\", "p", "d", "f", "g", "e", "n", "t", "o", "u", "n", "i", "c", "o", "d",
    "e", "=", "1", "\n", "\n", "%", "-", "-", "-", "-", "-", "-", "-", "-", "-", "-",
    " ", "C", "U", "S", "T", "O", "M", " ", "C", "O", "M", "M", "A", "N", "D", "S",
    " ", "-", "-", "-", "-", "-", "-", "-", "-", "-", "-", "\n", "\n", "%", " ", "B",
    "a", "s", "i", "c", " ", "i", "t", "e", "m", " ", "c", "o", "m", "m", "a", "n",
    "d", "\n", "\\", "n", "e", "w", "c", "o", "m", "m", "a", "n", "d", "{", "\\", "r",
    "e", "s", "u", "m", "e", "I", "t", "e", "m", "}", "[", "1", "]", "{", "\n", " ",
    " ", "\\", "i", "t", "e", "m", " ", "\\", "s", "m", "a", "l", "l", "{", " ", "#",
    "1", " ", "}", "\n", "}", "\n", "\n", "%", " ", "S", "u", "b", "h", "e", "a", "d",
    "i", "n", "g", " ", "w", "i", "t", "h", " ", "4", " ", "p", "a", "r", "a", "m",
    "e", "t", "e", "r", "s", ":", " ", "c", "o", "m", "p", "a", "n", "y", ",", " ",
    "l", "o", "c", "a", "t", "i", "o", "n", ",", " ", "p", "o", "s", "i", "t", "i",
    "o", "n", ",", " ", "d", "a", "t", "e", "\n", "\\", "n", "e", "w", "c", "o", "m",
    "m", "a", "n", "d", "{", "\\", "r", "e", "s", "u", "m", "e", "S", "u", "b", "h",
    "e", "a", "d", "i", "n", "g", "}", "[", "4", "]", "{", "\n", " ", " ", "\\", "v",
    "s", "p", "a", "c", "e", "{", "-", "2", "p", "t", "}", "\\", "i", "t", "e", "m",
    "\n", " ", " ", " ", " ", "\\", "b", "e", "g", "i", "n", "{", "t", "a", "b", "u",
    "l", "a", "r", "*", "}", "{", "0", ".", "9", "7", "\\", "t", "e", "x", "t", "w",
    "i", "d", "t", "h", "}", "[", "t", "]", "{", "l", "@", "{", "\\", "e", "x", "t",
    "r", "a", "c", "o", "l", "s", "e", "p", "{", "\\", "f", "i", "l", "l", "}", "}",
    "r", "}", "\n", " ", " ", " ", " ", " ", " ", "\\", "t", "e", "x", "t", "b", "f",
    "{", "#", "1", "}", " ", "&", " ", "#", "2", " ", "\\", "\\", "\n", " ", " ", " ",
    " ", " ", " ", "{", "\\", "s", "m", "a", "l", "l", " ", "#", "3", "}", " ", "&",
    " ", "{", "\\", "s", "m", "a", "l", "l", " ", "#", "4", "}", " ", "\\", "\\", "\n",
    " ", " ", " ", " ", "\\", "e", "n", "d", "{", "t", "a", "b", "u", "l", "a", "r",
    "*", "}", "\\", "v", "s", "p", "a", "c", "e", "{", "-", "7", "p", "t", "}", "\n",
    "}", "\n", "\n", "%", " ", "S", "u", "b", "-", "s", "u", "b", "h", "e", "a", "d",
    "i", "n", "g", " ", "w", "i", "t", "h", " ", "2", " ", "p", "a", "r", "a", "m",
    "e", "t", "e", "r", "s", ":", " ", "t", "i", "t", "l", "e", ",", " ", "d", "a",
    "t", "e", "\n", "\\", "n", "e", "w", "c", "o", "m", "m", "a", "n", "d", "{", "\\",
    "r", "e", "s", "u", "m", "e", "S", "u", "b", "S", "u", "b", "h", "e", "a", "d",
    "i", "n", "g", "}", "[", "2", "]", "{", "\n", " ", " ", " ", " ", "\\", "v", "s",
    "p", "a", "c", "e", "{", "-", "2", "p", "t", "}", "\\", "i", "t", "e", "m", "\n",
    " ", " ", " ", " ", "\\", "b", "e", "g", "i", "n", "{", "t", "a", "b", "u", "l",
    "a", "r", "*", "}", "{", "0", ".", "9", "7", "\\", "t", "e", "x", "t", "w", "i",
    "d", "t", "h", "}", "{", "l", "@", "{", "\\", "e", "x", "t", "r", "a", "c", "o",
    "l", "s", "e", "p", "{", "\\", "f", "i", "l", "l", "}", "}", "r", "}", "\n", " ",
    " ", " ", " ", " ", " ", "{", "\\", "s", "m", "a", "l", "l", " ", "#", "1", "}",
    " ", "&", " ", "{", "\\", "s", "m", "a", "l", "l", " ", "#", "2", "}", " ", "\\",
    "\\", "\n", " ", " ", " ", " ", "\\", "e", "n", "d", "{", "t", "a", "b", "u", "l",
    "a", "r", "*", "}", "\\", "v", "s", "p", "a", "c", "e", "{", "-", "7", "p", "t",
    "}", "\n", "}", "\n", "\n", "%", " ", "E", "d", "u", "c", "a", "t", "i", "o", "n",
    " ", "h", "e", "a", "d", "i", "n", "g", " ", "w", "i", "t", "h", " ", "4", " ",
    "p", "a", "r", "a", "m", "e", "t", "e", "r", "s", ":", " ", "u", "n", "i", "v",
    "e", "r", "s", "i", "t", "y", ",", " ", "l", "o", "c", "a", "t", "i", "o", "n",
    ",", " ", "d", "e", "g", "r", "e", "e", ",", " ", "d", "a", "t", "e", "\n", "\\",
    "n", "e", "w", "c", "o", "m", "m", "a", "n", "d", "{", "\\", "r", "e", "s", "u",
    "m", "e", "E", "d", "u", "c", "a", "t", "i", "o", "n", "H", "e", "a", "d", "i",
    "n", "g", "}", "[", "4", "]", "{", "\n", " ", " ", "\\", "v", "s", "p", "a", "c",
    "e", "{", "-", "2", "p", "t", "}", "\\", "i", "t", "e", "m", "\n", " ", " ", " ",
    " ", "\\", "b", "e", "g", "i", "n", "{", "t", "a", "b", "u", "l", "a", "r", "*",
    "}", "{", "0", ".", "9", "7", "\\", "t", "e", "x", "t", "w", "i", "d", "t", "h",
    "}", "[", "t", "]", "{", "l", "@", "{", "\\", "e", "x", "t", "r", "a", "c", "o",
    "l", "s", "e", "p", "{", "\\", "f", "i", "l", "l", "}", "}", "r", "}", "\n", " ",
    " ", " ", " ", " ", " ", "\\", "t", "e", "x", "t", "b", "f", "{", "#", "1", "}",
    " ", "&", " ", "#", "2", " ", "\\", "\\", "\n", " ", " ", " ", " ", " ", " ", "{",
    "\\", "s", "m", "a", "l", "l", " ", "#", "3", "}", " ", "&", " ", "{", "\\", "s",
    "m", "a", "l", "l", " ", "#", "4", "}", " ", "\\", "\\", "\n", " ", " ", " ", " ",
    "\\", "e", "n", "d", "{", "t", "a", "b", "u", "l", "a", "r", "*", "}", "\\", "v",
    "s", "p", "a", "c", "e", "{", "-", "7", "p", "t", "}", "\n", "}", "\n", "\n", "%",
    " ", "P", "r", "o", "j", "e", "c", "t", " ", "h", "e", "a", "d", "i", "n", "g",
    " ", "w", "i", "t", "h", " ", "2", " ", "p", "a", "r", "a", "m", "e", "t", "e",
    "r", "s", ":", " ", "p", "r", "o", "j", "e", "c", "t", " ", "n", "a", "m", "e",
    ",", " ", "d", "a", "t", "e", "\n", "\\", "n", "e", "w", "c", "o", "m", "m", "a",
    "n", "d", "{", "\\", "r", "e", "s", "u", "m", "e", "P", "r", "o", "j", "e", "c",
    "t", "H", "e", "a", "d", "i", "n", "g", "}", "[", "2", "]", "{", "\n", " ", " ",
    " ", " ", "\\", "v", "s", "p", "a", "c", "e", "{", "-", "2", "p", "t", "}", "\\",
    "i", "t", "e", "m", "\n", " ", " ", " ", " ", "\\", "b", "e", "g", "i", "n", "{",
    "t", "a", "b", "u", "l", "a", "r", "*", "}", "{", "0", ".", "9", "7", "\\", "t",
    "e", "x", "t", "w", "i", "d", "t", "h", "}", "{", "l", "@", "{", "\\", "e", "x",
    "t", "r", "a", "c", "o", "l", "s", "e", "p", "{", "\\", "f", "i", "l", "l", "}",
    "}", "r", "}", "\n", " ", " ", " ", " ", " ", " ", "\\", "s", "m", "a", "l", "l",
    "#", "1", " ", "&", " ", "#", "2", " ", "\\", "\\", "\n", " ", " ", " ", " ", "\\",
    "e", "n", "d", "{", "t", "a", "b", "u", "l", "a", "r", "*", "}", "\\", "v", "s",
    "p", "a", "c", "e", "{", "-", "7", "p", "t", "}", "\n", "}", "\n", "\n", "%", " ",
    "O", "r", "g", "a", "n", "i", "z", "a", "t", "i", "o", "n", " ", "h", "e", "a",
    "d", "i", "n", "g", " ", "w", "i", "t", "h", " ", "4", " ", "p", "a", "r", "a",
    "m", "e", "t", "e", "r", "s", ":", " ", "c", "o", "m", "p", "a", "n", "y", ",",
    " ", "d", "a", "t", "e", ",", " ", "p", "o", "s", "i", "t", "i", "o", "n", ",",
    " ", "l", "o", "c", "a", "t", "i", "o", "n", "\n", "\\", "n", "e", "w", "c", "o",
    "m", "m", "a", "n", "d", "{", "\\", "r", "e", "s", "u", "m", "e", "O", "r", "g",
    "a", "n", "i", "z", "a", "t", "i", "o", "n", "H", "e", "a", "d", "i", "n", "g",
    "}", "[", "4", "]", "{", "\n", " ", " ", "\\", "v", "s", "p", "a", "c", "e", "{",
    "-", "2", "p", "t", "}", "\\", "i", "t", "e", "m", "\n", " ", " ", " ", " ", "\\",
    "b", "e", "g", "i", "n", "{", "t", "a", "b", "u", "l", "a", "r", "*", "}", "{",
    "0", ".", "9", "7", "\\", "t", "e", "x", "t", "w", "i", "d", "t", "h", "}", "[",
    "t", "]", "{", "l", "@", "{", "\\", "e", "x", "t", "r", "a", "c", "o", "l", "s",
    "e", "p", "{", "\\", "f", "i", "l", "l", "}", "}", "r", "}", "\n", " ", " ", " ",
    " ", " ", " ", "\\", "t", "e", "x", "t", "b", "f", "{", "#", "1", "}", " ", "&",
    " ", "\\", "t", "e", "x", "t", "i", "t", "{", "\\", "s", "m", "a", "l", "l", " ",
    "#", "2", "}", " ", "\\", "\\", "\n", " ", " ", " ", " ", " ", " ", "\\", "t", "e",
    "x", "t", "i", "t", "{", "\\", "s", "m", "a", "l", "l", "#", "3", "}", "\n", " ",
    " ", " ", " ", "\\", "e", "n", "d", "{", "t", "a", "b", "u", "l", "a", "r", "*",
    "}", "\\", "v", "s", "p", "a", "c", "e", "{", "-", "7", "p", "t", "}", "\n", "}",
    "\n", "\n", "%", " ", "S", "u", "b", "-", "i", "t", "e", "m", " ", "w", "i", "t",
    "h", " ", "e", "x", "t", "r", "a", " ", "s", "p", "a", "c", "i", "n", "g", "\n",
    "\\", "n", "e", "w", "c", "o", "m", "m", "a", "n", "d", "{", "\\", "r", "e", "s",
    "u", "m", "e", "S", "u", "b", "I", "t", "e", "m", "}", "[", "1", "]", "{", "\\",
    "r", "e", "s", "u", "m", "e", "I", "t", "e", "m", "{", "#", "1", "}", "\\", "v",
    "s", "p", "a", "c", "e", "{", "-", "4", "p", "t", "}", "}", "\n", "\n", "%", " ",
    "L", "i", "s", "t", " ", "e", "n", "v", "i", "r", "o", "n", "m", "e", "n", "t",
    " ", "c", "o", "m", "m", "a", "n", "d", "s", "\n", "\\", "n", "e", "w", "c", "o",
    "m", "m", "a", "n", "d", "{", "\\", "r", "e", "s", "u", "m", "e", "S", "u", "b",
    "H", "e", "a", "d", "i", "n", "g", "L", "i", "s", "t", "S", "t", "a", "r", "t",
    "}", "{", "\\", "b", "e", "g", "i", "n", "{", "i", "t", "e", "m", "i", "z", "e",
    "}", "[", "l", "e", "f", "t", "m", "a", "r", "g", "i", "n", "=", "0", ".", "1",
    "5", "i", "n", ",", " ", "l", "a", "b", "e", "l", "=", "{", "}", "]", "}", "\n",
    "\\", "n", "e", "w", "c", "o", "m", "m", "a", "n", "d", "{", "\\", "r", "e", "s",
    "u", "m", "e", "S", "u", "b", "H", "e", "a", "d", "i", "n", "g", "L", "i", "s",
    "t", "E", "n", "d", "}", "{", "\\", "e", "n", "d", "{", "i", "t", "e", "m", "i",
    "z", "e", "}", "}", "\n", "\\", "n", "e", "w", "c", "o", "m", "m", "a", "n", "d",
    "{", "\\", "r", "e", "s", "u", "m", "e", "I", "t", "e", "m", "L", "i", "s", "t",
    "S", "t", "a", "r", "t", "}", "{", "\\", "b", "e", "g", "i", "n", "{", "i", "t",
    "e", "m", "i", "z", "e", "}", "[", "l", "e", "f", "t", "m", "a", "r", "g", "i",
    "n", "=", "*", ",", " ", "i", "t", "e", "m", "s", "e", "p", "=", "2", "p", "t",
    ",", " ", "l", "a", "b", "e", "l", "=", "\\", "t", "e", "x", "t", "b", "u", "l",
    "l", "e", "t", "]", "}", "\n", "\\", "n", "e", "w", "c", "o", "m", "m", "a", "n",
    "d", "{", "\\", "r", "e", "s", "u", "m", "e", "I", "t", "e", "m", "L", "i", "s",
    "t", "E", "n", "d", "}", "{", "\\", "e", "n", "d", "{", "i", "t", "e", "m", "i",
    "z", "e", "}", "\\", "v", "s", "p", "a", "c", "e", "{", "-", "5", "p", "t", "}",
    "}", "\n", "\n", "%", "-", "-", "-", "-", "-", "-", "-", "-", "-", "-", "-", "-",
    "-", "-", "-", "-", "-", "-", "-", "-", "-", "-", "-", "-", "-", "-", "-", "-",
    "-", "-", "-", "-", "-", "-", "-", "-", "-", "-", "-", "-", "-", "-", "-", "\n",
    "%", "%", "%", "%", "%", "%", " ", " ", "R", "E", "S", "U", "M", "E", " ", "S",
    "T", "A", "R", "T", "S", " ", "H", "E", "R", "E", " ", " ", "%", "%", "%", "%",
    "%", "%", "%", "%", "%", "%", "%", "%", "%", "%", "%", "%", "%", "%", "%", "%",
    "%", "%", "%", "%", "%", "%", "%", "\n", "\n", "\\", "b", "e", "g", "i", "n", "{",
    "d", "o", "c", "u", "m", "e", "n", "t", "}", "\n", "\n" >>

\* generate_heading, lines 216-223: template text, piece 1
\*   "%---------- HEADING ----------\n\\begin{center}\n    \\textbf{\\Huge \\scshape "
heading_tpl_1 ==
  <<
    "%", "-", "-", "-", "-", "-", "-", "-", "-", "-", "-", " ", "H", "E", "A", "D",
    "I", "N", "G", " ", "-", "-", "-", "-", "-", "-", "-", "-", "-", "-", "\n", "\\",
    "b", "e", "g", "i", "n", "{", "c", "e", "n", "t", "e", "r", "}", "\n", " ", " ",
    " ", " ", "\\", "t", "e", "x", "t", "b", "f", "{", "\\", "H", "u", "g", "e", " ",
    "\\", "s", "c", "s", "h", "a", "p", "e", " " >>

\* generate_heading, lines 216-223: template text, piece 2
\*   "} \\\\ \\vspace{3pt}\n    \\small\n    "
heading_tpl_2 ==
  <<
    "}", " ", "\\", "\\", " ", "\\", "v", "s", "p", "a", "c", "e", "{", "3", "p", "t",
    "}", "\n", " ", " ", " ", " ", "\\", "s", "m", "a", "l", "l", "\n", " ", " ", " ",
    " " >>

\* generate_heading, lines 216-223: template text, piece 3
\*   " $|$ "
heading_tpl_3 ==
  << " ", "$", "|", "$", " " >>

\* generate_heading, lines 216-223: template text, piece 4
\*   " $|$ "
heading_tpl_4 ==
  << " ", "$", "|", "$", " " >>

\* generate_heading, lines 216-223: template text, piece 5
\*   " $|$ "
heading_tpl_5 ==
  << " ", "$", "|", "$", " " >>

\* generate_heading, lines 216-223: template text, piece 6
\*   "\n\\end{center}\n\n"
heading_tpl_6 ==
  << "\n", "\\", "e", "n", "d", "{", "c", "e", "n", "t", "e", "r", "}", "\n", "\n" >>

\* generate_education, lines 234-250: template text, piece 1
\*   "%---------- EDUCATION -----------\n\\section{EDUCATION}\n  \\vspace{3pt}\n  \\resumeSubHeadingListStart\n\n    \\resumeEducationHeading\n      {"
education_tpl_1 ==
  <<
    "%", "-", "-", "-", "-", "-", "-", "-", "-", "-", "-", " ", "E", "D", "U", "C",
    "A", "T", "I", "O", "N", " ", "-", "-", "-", "-", "-", "-", "-", "-", "-", "-",
    "-", "\n", "\\", "s", "e", "c", "t", "i", "o", "n", "{", "E", "D", "U", "C", "A",
    "T", "I", "O", "N", "}", "\n", " ", " ", "\\", "v", "s", "p", "a", "c", "e", "{",
    "3", "p", "t", "}", "\n", " ", " ", "\\", "r", "e", "s", "u", "m", "e", "S", "u",
    "b", "H", "e", "a", "d", "i", "n", "g", "L", "i", "s", "t", "S", "t", "a", "r",
    "t", "\n", "\n", " ", " ", " ", " ", "\\", "r", "e", "s", "u", "m", "e", "E", "d",
    "u", "c", "a", "t", "i", "o", "n", "H", "e", "a", "d", "i", "n", "g", "\n", " ",
    " ", " ", " ", " ", " ", "{" >>

\* generate_education, lines 234-250: template text, piece 2
\*   "}{"
education_tpl_2 ==
  << "}", "{" >>

\* generate_education, lines 234-250: template text, piece 3
\*   "}\n      {"
education_tpl_3 ==
  << "}", "\n", " ", " ", " ", " ", " ", " ", "{" >>

\* generate_education, lines 234-250: template text, piece 4
\*   "}{"
education_tpl_4 ==
  << "}", "{" >>

\* generate_education, lines 234-250: template text, piece 5
\*   "}\n\n        \\resumeItemListStart\n            \\resumeItem{Core Modules: "
education_tpl_5 ==
  <<
    "}", "\n", "\n", " ", " ", " ", " ", " ", " ", " ", " ", "\\", "r", "e", "s", "u",
    "m", "e", "I", "t", "e", "m", "L", "i", "s", "t", "S", "t", "a", "r", "t", "\n",
    " ", " ", " ", " ", " ", " ", " ", " ", " ", " ", " ", " ", "\\", "r", "e", "s",
    "u", "m", "e", "I", "t", "e", "m", "{", "C", "o", "r", "e", " ", "M", "o", "d",
    "u", "l", "e", "s", ":", " " >>

\* generate_education, lines 234-250: template text, piece 6
\*   "}\n            \\resumeItem{Grade: "
education_tpl_6 ==
  <<
    "}", "\n", " ", " ", " ", " ", " ", " ", " ", " ", " ", " ", " ", " ", "\\", "r",
    "e", "s", "u", "m", "e", "I", "t", "e", "m", "{", "G", "r", "a", "d", "e", ":",
    " " >>

\* generate_education, lines 234-250: template text, piece 7
\*   "}\n        \\resumeItemListEnd\n\n  \\resumeSubHeadingListEnd\n\n"
education_tpl_7 ==
  <<
    "}", "\n", " ", " ", " ", " ", " ", " ", " ", " ", "\\", "r", "e", "s", "u", "m",
    "e", "I", "t", "e", "m", "L", "i", "s", "t", "E", "n", "d", "\n", "\n", " ", " ",
    "\\", "r", "e", "s", "u", "m", "e", "S", "u", "b", "H", "e", "a", "d", "i", "n",
    "g", "L", "i", "s", "t", "E", "n", "d", "\n", "\n" >>

\* generate_professional_experience, lines 255-260: section opening
\*   "%---------- PROFESSIONAL EXPERIENCE -----------\n\\section{PROFESSIONAL EXPERIENCE}\n  \\vspace{3pt}\n  \\resumeSubHeadingListStart\n\n"
experience_open ==
  <<
    "%", "-", "-", "-", "-", "-", "-", "-", "-", "-", "-", " ", "P", "R", "O", "F",
    "E", "S", "S", "I", "O", "N", "A", "L", " ", "E", "X", "P", "E", "R", "I", "E",
    "N", "C", "E", " ", "-", "-", "-", "-", "-", "-", "-", "-", "-", "-", "-", "\n",
    "\\", "s", "e", "c", "t", "i", "o", "n", "{", "P", "R", "O", "F", "E", "S", "S",
    "I", "O", "N", "A", "L", " ", "E", "X", "P", "E", "R", "I", "E", "N", "C", "E",
    "}", "\n", " ", " ", "\\", "v", "s", "p", "a", "c", "e", "{", "3", "p", "t", "}",
    "\n", " ", " ", "\\", "r", "e", "s", "u", "m", "e", "S", "u", "b", "H", "e", "a",
    "d", "i", "n", "g", "L", "i", "s", "t", "S", "t", "a", "r", "t", "\n", "\n" >>

\* generate_professional_experience, lines 268-270: template text, piece 1
\*   "    \\resumeSubheading\n      {"
experience_tpl_1 ==
  <<
    " ", " ", " ", " ", "\\", "r", "e", "s", "u", "m", "e", "S", "u", "b", "h", "e",
    "a", "d", "i", "n", "g", "\n", " ", " ", " ", " ", " ", " ", "{" >>

\* generate_professional_experience, lines 268-270: template text, piece 2
\*   "}{"
experience_tpl_2 ==
  << "}", "{" >>

\* generate_professional_experience, lines 268-270: template text, piece 3
\*   "}\n      {"
experience_tpl_3 ==
  << "}", "\n", " ", " ", " ", " ", " ", " ", "{" >>

\* generate_professional_experience, lines 268-270: template text, piece 4
\*   "}{"
experience_tpl_4 ==
  << "}", "{" >>

\* generate_professional_experience, lines 268-270: template text, piece 5
\*   "}"
experience_tpl_5 ==
  << "}" >>

\* generate_professional_experience, lines 273-273: bullet-list start
\*   "\n        \\resumeItemListStart\n"
experience_list_start ==
  <<
    "\n", " ", " ", " ", " ", " ", " ", " ", " ", "\\", "r", "e", "s", "u", "m", "e",
    "I", "t", "e", "m", "L", "i", "s", "t", "S", "t", "a", "r", "t", "\n" >>

\* generate_professional_experience, lines 276-276: template text, piece 1
\*   "            \\resumeItem{"
experience_item_1 ==
  <<
    " ", " ", " ", " ", " ", " ", " ", " ", " ", " ", " ", " ", "\\", "r", "e", "s",
    "u", "m", "e", "I", "t", "e", "m", "{" >>

\* generate_professional_experience, lines 276-276: template text, piece 2
\*   "}\n"
experience_item_2 ==
  << "}", "\n" >>

\* generate_professional_experience, lines 277-277: bullet-list end
\*   "        \\resumeItemListEnd\n"
experience_list_end ==
  <<
    " ", " ", " ", " ", " ", " ", " ", " ", "\\", "r", "e", "s", "u", "m", "e", "I",
    "t", "e", "m", "L", "i", "s", "t", "E", "n", "d", "\n" >>

\* generate_professional_experience, lines 279-279: line break of an entry without bullets
\*   "\n"
experience_no_list ==
  << "\n" >>

\* generate_professional_experience, lines 281-281: section closing
\*   "  \\resumeSubHeadingListEnd\n\n"
experience_close ==
  <<
    " ", " ", "\\", "r", "e", "s", "u", "m", "e", "S", "u", "b", "H", "e", "a", "d",
    "i", "n", "g", "L", "i", "s", "t", "E", "n", "d", "\n", "\n" >>

\* generate_project_experience, lines 286-291: section opening
\*   "%---------- PROJECT EXPERIENCE -----------\n\\section{PROJECT EXPERIENCE}\n    \\vspace{3pt}\n    \\resumeSubHeadingListStart\n\n"
project_open ==
  <<
    "%", "-", "-", "-", "-", "-", "-", "-", "-", "-", "-", " ", "P", "R", "O", "J",
    "E", "C", "T", " ", "E", "X", "P", "E", "R", "I", "E", "N", "C", "E", " ", "-",
    "-", "-", "-", "-", "-", "-", "-", "-", "-", "-", "\n", "\\", "s", "e", "c", "t",
    "i", "o", "n", "{", "P", "R", "O", "J", "E", "C", "T", " ", "E", "X", "P", "E",
    "R", "I", "E", "N", "C", "E", "}", "\n", " ", " ", " ", " ", "\\", "v", "s", "p",
    "a", "c", "e", "{", "3", "p", "t", "}", "\n", " ", " ", " ", " ", "\\", "r", "e",
    "s", "u", "m", "e", "S", "u", "b", "H", "e", "a", "d", "i", "n", "g", "L", "i",
    "s", "t", "S", "t", "a", "r", "t", "\n", "\n" >>

\* generate_project_experience, lines 297-298: template text, piece 1
\*   "      \\resumeProjectHeading\n        {\\textbf{"
project_tpl_1 ==
  <<
    " ", " ", " ", " ", " ", " ", "\\", "r", "e", "s", "u", "m", "e", "P", "r", "o",
    "j", "e", "c", "t", "H", "e", "a", "d", "i", "n", "g", "\n", " ", " ", " ", " ",
    " ", " ", " ", " ", "{", "\\", "t", "e", "x", "t", "b", "f", "{" >>

\* generate_project_experience, lines 297-298: template text, piece 2
\*   "}}{"
project_tpl_2 ==
  << "}", "}", "{" >>

\* generate_project_experience, lines 297-298: template text, piece 3
\*   "}"
project_tpl_3 ==
  << "}" >>

\* generate_project_experience, lines 301-301: bullet-list start
\*   "\n          \\resumeItemListStart\n"
project_list_start ==
  <<
    "\n", " ", " ", " ", " ", " ", " ", " ", " ", " ", " ", "\\", "r", "e", "s", "u",
    "m", "e", "I", "t", "e", "m", "L", "i", "s", "t", "S", "t", "a", "r", "t", "\n" >>

\* generate_project_experience, lines 304-304: template text, piece 1
\*   "            \\resumeItem{"
project_item_1 ==
  <<
    " ", " ", " ", " ", " ", " ", " ", " ", " ", " ", " ", " ", "\\", "r", "e", "s",
    "u", "m", "e", "I", "t", "e", "m", "{" >>

\* generate_project_experience, lines 304-304: template text, piece 2
\*   "}\n"
project_item_2 ==
  << "}", "\n" >>

\* generate_project_experience, lines 305-305: bullet-list end
\*   "          \\resumeItemListEnd\n"
project_list_end ==
  <<
    " ", " ", " ", " ", " ", " ", " ", " ", " ", " ", "\\", "r", "e", "s", "u", "m",
    "e", "I", "t", "e", "m", "L", "i", "s", "t", "E", "n", "d", "\n" >>

\* generate_project_experience, lines 307-307: line break of a project without bullets
\*   "\n"
project_no_list ==
  << "\n" >>

\* generate_project_experience, lines 309-309: section closing
\*   "    \\resumeSubHeadingListEnd\n\n"
project_close ==
  <<
    " ", " ", " ", " ", "\\", "r", "e", "s", "u", "m", "e", "S", "u", "b", "H", "e",
    "a", "d", "i", "n", "g", "L", "i", "s", "t", "E", "n", "d", "\n", "\n" >>

\* generate_additional_information, lines 317-317: template text, piece 1
\*   " ("
language_pair_1 ==
  << " ", "(" >>

\* generate_additional_information, lines 317-317: template text, piece 2
\*   ")"
language_pair_2 ==
  << ")" >>

\* generate_additional_information, lines 324-335: template text, piece 1
\*   "%---------- ADDITIONAL INFORMATION -----------\n\\section{ADDITIONAL INFORMATION}\n  \\vspace{2pt}\n  \\resumeSubHeadingListStart\n    \\small{\\item{\n        \\textbf{Languages:} "
additional_tpl_1 ==
  <<
    "%", "-", "-", "-", "-", "-", "-", "-", "-", "-", "-", " ", "A", "D", "D", "I",
    "T", "I", "O", "N", "A", "L", " ", "I", "N", "F", "O", "R", "M", "A", "T", "I",
    "O", "N", " ", "-", "-", "-", "-", "-", "-", "-", "-", "-", "-", "-", "\n", "\\",
    "s", "e", "c", "t", "i", "o", "n", "{", "A", "D", "D", "I", "T", "I", "O", "N",
    "A", "L", " ", "I", "N", "F", "O", "R", "M", "A", "T", "I", "O", "N", "}", "\n",
    " ", " ", "\\", "v", "s", "p", "a", "c", "e", "{", "2", "p", "t", "}", "\n", " ",
    " ", "\\", "r", "e", "s", "u", "m", "e", "S", "u", "b", "H", "e", "a", "d", "i",
    "n", "g", "L", "i", "s", "t", "S", "t", "a", "r", "t", "\n", " ", " ", " ", " ",
    "\\", "s", "m", "a", "l", "l", "{", "\\", "i", "t", "e", "m", "{", "\n", " ", " ",
    " ", " ", " ", " ", " ", " ", "\\", "t", "e", "x", "t", "b", "f", "{", "L", "a",
    "n", "g", "u", "a", "g", "e", "s", ":", "}", " " >>

\* generate_additional_information, lines 324-335: template text, piece 2
\*   " \\\\ \\vspace{3pt}\n\n        \\textbf{Skills:} "
additional_tpl_2 ==
  <<
    " ", "\\", "\\", " ", "\\", "v", "s", "p", "a", "c", "e", "{", "3", "p", "t", "}",
    "\n", "\n", " ", " ", " ", " ", " ", " ", " ", " ", "\\", "t", "e", "x", "t", "b",
    "f", "{", "S", "k", "i", "l", "l", "s", ":", "}", " " >>

\* generate_additional_information, lines 324-335: template text, piece 3
\*   " \\\\ \\vspace{3pt}\n    }}\n  \\resumeSubHeadingListEnd\n\n"
additional_tpl_3 ==
  <<
    " ", "\\", "\\", " ", "\\", "v", "s", "p", "a", "c", "e", "{", "3", "p", "t", "}",
    "\n", " ", " ", " ", " ", "}", "}", "\n", " ", " ", "\\", "r", "e", "s", "u", "m",
    "e", "S", "u", "b", "H", "e", "a", "d", "i", "n", "g", "L", "i", "s", "t", "E",
    "n", "d", "\n", "\n" >>

\* generate_latex_footer, lines 339-341: the static footer block
\*   "%-------------------------------------------\n\\end{document}\n"
generate_latex_footer ==
  <<
    "%", "-", "-", "-", "-", "-", "-", "-", "-", "-", "-", "-", "-", "-", "-", "-",
    "-", "-", "-", "-", "-", "-", "-", "-", "-", "-", "-", "-", "-", "-", "-", "-",
    "-", "-", "-", "-", "-", "-", "-", "-", "-", "-", "-", "-", "\n", "\\", "e", "n",
    "d", "{", "d", "o", "c", "u", "m", "e", "n", "t", "}", "\n" >>


(***************************************************************************)
(* str methods                                                             *)
(***************************************************************************)

\* str.replace(old, new) for a one-character old: every occurrence, left to right.
RECURSIVE replace(_, _, _)
replace(s, old, new) ==
  IF s = << >> THEN << >>
  ELSE (IF Head(s) = old THEN new ELSE << Head(s) >>) \o replace(Tail(s), old, new)

\* sep.join(items)
RECURSIVE join(_, _)
join(sep, items) ==
  IF items = << >> THEN << >>
  ELSE IF Len(items) = 1 THEN items[1]
  ELSE items[1] \o sep \o join(sep, Tail(items))

\* str.count(c) for a one-character c.
count(s, c) == Cardinality({ i \in 1..Len(s) : s[i] = c })

\* The positions at which pat occurs in s (pat in s, s.count(pat), s.find(pat)).
occurrences(s, pat) ==
  { i \in 1..(Len(s) - Len(pat) + 1) : \A k \in 1..Len(pat) : s[i + k - 1] = pat[k] }

\* The concatenation of a sequence of sequences.
RECURSIVE flatten(_)
flatten(ss) == IF ss = << >> THEN << >> ELSE Head(ss) \o flatten(Tail(ss))

(***************************************************************************)
(* escape_latex                                                            *)
(***************************************************************************)

escape_latex(t) ==
  IF t = << >> THEN << >>
  ELSE replace(replace(replace(replace(t,
         "{", << "\\", "{" >>),
         "}", << "\\", "}" >>),
         "&", << "\\", "&" >>),
         "%", << "\\", "%" >>)

(***************************************************************************)
(* generate_output_filename                                                *)
(***************************************************************************)

\* The characters the class [a-zA-Z0-9\-] of the pattern holds.
FilenameChars ==
  { "a", "b", "c", "d", "e", "f", "g", "h", "i", "j", "k", "l", "m",
    "n", "o", "p", "q", "r", "s", "t", "u", "v", "w", "x", "y", "z",
    "A", "B", "C", "D", "E", "F", "G", "H", "I", "J", "K", "L", "M",
    "N", "O", "P", "Q", "R", "S", "T", "U", "V", "W", "X", "Y", "Z",
    "0", "1", "2", "3", "4", "5", "6", "7", "8", "9",
    "-" }

\* re.sub(r'[^a-zA-Z0-9\-]', '_', s)
re_sub_other_chars(s) ==
  [ i \in 1..Len(s) |-> IF s[i] \in FilenameChars THEN s[i] ELSE "_" ]

\* s.lstrip(c), s.rstrip(c), s.strip(c) for a one-character c
RECURSIVE lstrip(_, _)
lstrip(s, c) == IF s # << >> /\ Head(s) = c THEN lstrip(Tail(s), c) ELSE s

RECURSIVE rstrip(_, _)
rstrip(s, c) ==
  IF s # << >> /\ s[Len(s)] = c THEN rstrip(SubSeq(s, 1, Len(s) - 1), c) ELSE s

strip(s, c) == rstrip(lstrip(s, c), c)

\* f"{clean_name}_resume.tex"
resume_tex == << "_", "r", "e", "s", "u", "m", "e", ".", "t", "e", "x" >>

\* generate_output_filename without the strip of the underscores.
generate_output_filename_no_strip(data) ==
  re_sub_other_chars(replace(data.personal_info.name, " ", << "-" >>)) \o resume_tex

\* generate_output_filename substituting the pattern before it replaces the spaces.
generate_output_filename_spaces_last(data) ==
  strip(replace(re_sub_other_chars(data.personal_info.name), " ", << "-" >>), "_")
    \o resume_tex

generate_output_filename(data) ==
  LET name == data.personal_info.name
      clean_name == strip(re_sub_other_chars(replace(name, " ", << "-" >>)), "_")
  IN  clean_name \o resume_tex

\* main: "if args.output: output_file = args.output, else the generated name".
\* None and the empty string are false.
determine_output_file(output, data) ==
  IF output # None /\ output # << >> THEN output ELSE generate_output_filename(data)

(***************************************************************************)
(* validate_latex_syntax                                                   *)
(***************************************************************************)

\* s.find(pat): the index, counted from 0, of the first occurrence, or -1.
find(s, pat) ==
  IF occurrences(s, pat) = { } THEN -1
  ELSE (CHOOSE i \in occurrences(s, pat) : \A j \in occurrences(s, pat) : i <= j) - 1

\* The characters \w matches.
WordChars == (FilenameChars \ { "-" }) \cup { "_" }

\* Keeps the entries of a marked list whose mark is TRUE.
NotDropped(m) == ~m[2]

\* The first position from i on that holds one of the characters `stops`,
\* Len(content) + 1 when there is none.
first_of(content, i, stops) ==
  CHOOSE k \in i..(Len(content) + 1) :
    /\ k > Len(content) \/ content[k] \in stops
    /\ \A m \in i..(k - 1) : content[m] \notin stops

\* The lines lo..hi of the text (lo starts a line, hi is a line break or the
\* end of the text), every line without its match of %.*$ : the match begins
\* at the first percent sign of the line and ends before the line break ('.'
\* matches no line break, '$' matches before one and at the end of the text).
\* The lines are taken in two halves to keep the nesting shallow.
RECURSIVE strip_lines(_, _, _)
strip_lines(content, lo, hi) ==
  IF lo > hi THEN << >>
  ELSE LET middle_break == first_of(content, (lo + hi) \div 2, { "\n" })
           first_break == first_of(content, lo, { "\n" })
           match_start == first_of(content, lo, { "%", "\n" })
       IN  IF middle_break < hi
           THEN strip_lines(content, lo, middle_break)
                \o strip_lines(content, middle_break + 1, hi)
           ELSE IF first_break < hi
           THEN strip_lines(content, lo, first_break)
                \o strip_lines(content, first_break + 1, hi)
           ELSE SubSeq(content, lo, match_start - 1)
                \o (IF content[hi] = "\n" THEN << "\n" >> ELSE << >>)

\* re.sub(r'%.*$', '', content, flags=re.MULTILINE): on every line, the first
\* percent sign and all that follows it up to the line break are removed.
strip_comments(content) == strip_lines(content, 1, Len(content))

\* re.findall(r'(?<!\\)%', s): the matches, by position
findall_unescaped_percent(s) ==
  { i \in 1..Len(s) : s[i] = "%" /\ (i = 1 \/ s[i - 1] # "\\") }

\* re.findall(r'(?<!\\)&(?!\w)', s): the matches, by position
findall_unescaped_ampersand(s) ==
  { i \in 1..Len(s) :
      /\ s[i] = "&"
      /\ (i = 1 \/ s[i - 1] # "\\")
      /\ (i = Len(s) \/ s[i + 1] \notin WordChars) }

\* A variant that scans the whole file for ampersands.
ampersand_matches_whole_file(content) == findall_unescaped_ampersand(content)

\* content[doc_start:] when \begin{document} was found, and its matches
ampersand_matches(content) ==
  LET doc_start == find(content, << "\\", "b", "e", "g", "i", "n", "{",
                                    "d", "o", "c", "u", "m", "e", "n", "t", "}" >>)
  IN  IF doc_start # -1
      THEN findall_unescaped_ampersand(SubSeq(content, doc_start + 1, Len(content)))
      ELSE { }

\* A variant that leaves escaped braces out of the two totals.
braces_unbalanced_unescaped(content) ==
  Cardinality({ i \in 1..Len(content) :
                  content[i] = "{" /\ (i = 1 \/ content[i - 1] # "\\") })
  # Cardinality({ i \in 1..Len(content) :
                    content[i] = "}" /\ (i = 1 \/ content[i - 1] # "\\") })

\* open_braces != close_braces
braces_unbalanced(content) == count(content, "{") # count(content, "}")

\* required
required_elements ==
  << << "\\", "d", "o", "c", "u", "m", "e", "n", "t", "c", "l", "a", "s", "s" >>,
     << "\\", "b", "e", "g", "i", "n", "{", "d", "o", "c", "u", "m", "e", "n", "t", "}" >>,
     << "\\", "e", "n", "d", "{", "d", "o", "c", "u", "m", "e", "n", "t", "}" >> >>

\* missing: the required elements that are not in content, in the order of the list
missing_elements(content) ==
  LET absent == { i \in 1..Len(required_elements) :
                    occurrences(content, required_elements[i]) = { } }
      marked == [ i \in 1..Len(required_elements) |-> << required_elements[i], i \notin absent >> ]
      kept == SelectSeq(marked, NotDropped)
  IN  [ i \in 1..Len(kept) |-> kept[i][1] ]

\* The body of the try block for a file that was read: the local variables at
\* its end and the value returned. An issue is the kind of the message with
\* the numbers or the list the message quotes.
check_content(content) ==
  LET no_comments == strip_comments(content)
      unescaped_percent == findall_unescaped_percent(no_comments)
      unescaped_ampersand == ampersand_matches(content)
      missing == missing_elements(content)
      found ==
        (IF unescaped_percent # { }
         THEN << << "percent", Cardinality(unescaped_percent) >> >> ELSE << >>)
        \o (IF unescaped_ampersand # { }
            THEN << << "ampersand", Cardinality(unescaped_ampersand) >> >> ELSE << >>)
        \o (IF braces_unbalanced(content)
            THEN << << "braces", count(content, "{"), count(content, "}") >> >> ELSE << >>)
        \o (IF missing # << >> THEN << << "missing", missing >> >> ELSE << >>)
  IN  [ content_no_comments |-> no_comments, issues |-> found, result |-> (found = << >>) ]

\* A variant that passes a file with missing required elements.
validate_latex_syntax_ignores_missing(content) ==
  IF content = None
  THEN [ content_no_comments |-> None, issues |-> None, result |-> FALSE ]
  ELSE [ check_content(content) EXCEPT
           !.result = \A i \in 1..Len(check_content(content).issues) :
                        check_content(content).issues[i][1] = "missing" ]

\* validate_latex_syntax on a file holding `content`, None for a file that
\* cannot be read: open raises, and the except branch returns False.
validate_latex_syntax(content) ==
  IF content = None
  THEN [ content_no_comments |-> None, issues |-> None, result |-> FALSE ]
  ELSE check_content(content)

(***************************************************************************)
(* find_pdflatex, install_latex and compile_latex_to_pdf                   *)
(*                                                                         *)
(* A directory is a one-element tuple of its name and a file is            *)
(* << directory, stem, suffix >>, so that Path(...).parent, Path(...).stem *)
(* and os.path.join(directory, stem + suffix) are projections and tuples.  *)
(***************************************************************************)

\* Exceptions that stand in place of an answer at the prompt.
EOFError == << "EOFError", 0 >>
KeyboardInterrupt == << "KeyboardInterrupt", 0 >>

\* common_paths
common_paths ==
  << << "/usr/local/texlive/2024basic/bin/universal-darwin/pdflatex" >>,
     << "/usr/local/texlive/2023/bin/universal-darwin/pdflatex" >>,
     << "/usr/local/texlive/2022/bin/universal-darwin/pdflatex" >>,
     << "/Library/TeX/texbin/pdflatex" >>,
     << "/usr/local/bin/pdflatex" >>,
     << "/opt/homebrew/bin/pdflatex" >> >>

\* find_pdflatex: env.which is the answer of shutil.which("pdflatex"),
\* env.existing the paths os.path.exists answers True for.
find_pdflatex(env) ==
  IF env.which THEN << "pdflatex" >>
  ELSE LET found == { i \in 1..Len(common_paths) : common_paths[i] \in env.existing }
       IN  IF found = { } THEN None
           ELSE common_paths[CHOOSE i \in found : \A j \in found : i <= j]

\* The commands install_latex hands to subprocess.run.
brew_install == << "brew", "install", "--cask", "basictex" >>
which_apt_get == << "which", "apt-get" >>
apt_get_update == << "sudo", "apt-get", "update" >>
apt_get_install == << "sudo", "apt-get", "install", "-y", "texlive-full" >>
which_yum == << "which", "yum" >>
yum_install == << "sudo", "yum", "install", "-y", "texlive" >>

\* How the k-th command run with check=True ends on this machine.
run_checked(env, k) == IF env.install_fail_at = k THEN env.install_failure ELSE "ok"

\* install_latex: the commands it ran, and "True" or "False" for the value it
\* returned or the name of the exception that left it.
install_latex(env) ==
  CASE env.platform = "Darwin" ->
         [ commands |-> << brew_install >>,
           result |-> CASE run_checked(env, 1) = "ok" -> "True"
                        [] run_checked(env, 1) = "CalledProcessError" -> "False"
                        [] run_checked(env, 1) = "FileNotFoundError" -> "False"
                        [] OTHER -> run_checked(env, 1) ]
    [] env.platform = "Linux" /\ env.package_manager = "apt-get" ->
         IF run_checked(env, 1) # "ok"
         THEN [ commands |-> << which_apt_get, apt_get_update >>,
                result |-> IF run_checked(env, 1) = "CalledProcessError"
                           THEN "False" ELSE run_checked(env, 1) ]
         ELSE [ commands |-> << which_apt_get, apt_get_update, apt_get_install >>,
                result |-> CASE run_checked(env, 2) = "ok" -> "True"
                             [] run_checked(env, 2) = "CalledProcessError" -> "False"
                             [] OTHER -> run_checked(env, 2) ]
    [] env.platform = "Linux" /\ env.package_manager = "yum" ->
         [ commands |-> << which_apt_get, which_yum, yum_install >>,
           result |-> CASE run_checked(env, 1) = "ok" -> "True"
                        [] run_checked(env, 1) = "CalledProcessError" -> "False"
                        [] OTHER -> run_checked(env, 1) ]
    [] env.platform = "Linux" /\ env.package_manager = "none" ->
         [ commands |-> << which_apt_get, which_yum >>, result |-> "False" ]
    [] OTHER -> [ commands |-> << >>, result |-> "False" ]

\* str.strip() and str.lower()
Whitespace == { " ", "\t", "\n" }

RECURSIVE strip_whitespace(_)
strip_whitespace(s) ==
  IF s = << >> THEN s
  ELSE IF Head(s) \in Whitespace THEN strip_whitespace(Tail(s))
  ELSE IF s[Len(s)] \in Whitespace THEN strip_whitespace(SubSeq(s, 1, Len(s) - 1))
  ELSE s

UpperCase == << "A", "B", "C", "D", "E", "F", "G", "H", "I", "J", "K", "L", "M",
                "N", "O", "P", "Q", "R", "S", "T", "U", "V", "W", "X", "Y", "Z" >>
LowerCase == << "a", "b", "c", "d", "e", "f", "g", "h", "i", "j", "k", "l", "m",
                "n", "o", "p", "q", "r", "s", "t", "u", "v", "w", "x", "y", "z" >>

lower(s) ==
  [ i \in 1..Len(s) |->
      IF \E k \in 1..26 : UpperCase[k] = s[i]
      THEN LowerCase[CHOOSE k \in 1..26 : UpperCase[k] = s[i]]
      ELSE s[i] ]

\* A variant that takes every answer starting with y as consent.
accepts_install_by_first_letter(answer) ==
  strip_whitespace(answer) # << >> /\ lower(strip_whitespace(answer))[1] = "y"

\* user_input in ['y', 'yes'], for user_input = input(...).strip().lower()
accepts_install(answer) ==
  lower(strip_whitespace(answer)) \in { << "y" >>, << "y", "e", "s" >> }

\* latex_dir = Path(latex_file).parent and latex_name = Path(latex_file).stem
latex_dir(path) == path[1]
latex_name(path) == path[2]

\* temp_extensions
temp_extensions == << ".aux", ".log", ".out", ".fdb_latexmk", ".fls", ".synctex.gz" >>

\* output_pdf = os.path.join(original_dir, pdf_file)
output_pdf(original, path) == << original, latex_name(path), ".pdf" >>

\* The files of the cleanup loop: os.path.join(original_dir, latex_name + ext)
temp_files(original, path) ==
  { << original, latex_name(path), temp_extensions[k] >> : k \in 1..Len(temp_extensions) }

\* TemporaryDirectory.__exit__: the directory goes with all that is in it.
remove_tree(files, d) == { f \in files : f[1] # d }

\* [pdflatex_path, "-interaction=nonstopmode", f"{latex_name}.tex"], the file
\* name as its stem and its suffix
pdflatex_command(path, source) ==
  << path[1], "-interaction=nonstopmode", latex_name(source), ".tex" >>

\* A variant that takes a zero return code for success.
compile_succeeded_by_return_code(returncode, pdf_exists, copied_back) == returncode = 0

\* The value compile_latex_to_pdf returns once the compiler has run.
compile_succeeded(returncode, pdf_exists, copied_back) ==
  returncode = 0 /\ pdf_exists /\ copied_back

\* What is printed of a run that ended with a non-zero return code.
relay(res) ==
  << << "returncode", res[1] >> >>
  \o (IF res[2] # "" THEN << << "stdout", res[2] >> >> ELSE << >>)
  \o (IF res[3] # "" THEN << << "stderr", res[3] >> >> ELSE << >>)

(***************************************************************************)
(* The section builders                                                    *)
(*                                                                         *)
(* A builder's result is the text it returns together with the arguments   *)
(* of the escape_latex calls it made on the way, in call order: escaping   *)
(* a field (emit_escaped) is the one step that both calls escape_latex     *)
(* and inserts its result, and template text (emit) is inserted as it is.  *)
(***************************************************************************)

\* latex = "" before the first piece.
empty_latex == [ latex |-> << >>, calls |-> << >> ]

\* latex += <template text>
emit(acc, s) == [ latex |-> acc.latex \o s, calls |-> acc.calls ]

\* latex += escape_latex(field)
emit_escaped(acc, field) ==
  [ latex |-> acc.latex \o escape_latex(field), calls |-> Append(acc.calls, field) ]

\* latex_content += <a builder's block>
concat(acc, block) ==
  [ latex |-> acc.latex \o block.latex, calls |-> acc.calls \o block.calls ]

\* generate_heading with the brace that closes \textbf left out of the template.
generate_heading_unbalanced(personal_info) ==
  LET a1 == emit_escaped(emit(empty_latex, heading_tpl_1), personal_info.name)
      a2 == emit_escaped(emit(a1, Tail(heading_tpl_2)), personal_info.phone)
      a3 == emit_escaped(emit(a2, heading_tpl_3), personal_info.email)
      a4 == emit_escaped(emit(a3, heading_tpl_4), personal_info.location)
      a5 == emit_escaped(emit(a4, heading_tpl_5), personal_info.website)
  IN  emit(a5, heading_tpl_6)

generate_heading(personal_info) ==
  LET a1 == emit_escaped(emit(empty_latex, heading_tpl_1), personal_info.name)
      a2 == emit_escaped(emit(a1, heading_tpl_2), personal_info.phone)
      a3 == emit_escaped(emit(a2, heading_tpl_3), personal_info.email)
      a4 == emit_escaped(emit(a3, heading_tpl_4), personal_info.location)
      a5 == emit_escaped(emit(a4, heading_tpl_5), personal_info.website)
  IN  emit(a5, heading_tpl_6)

\* education_core_modules escaping every module on its own and joining the results.
education_core_modules_each(acc, core_modules) ==
  [ latex |-> acc.latex
                \o join(<< ",", " " >>,
                        [ i \in 1..Len(core_modules) |-> escape_latex(core_modules[i]) ]),
    calls |-> acc.calls \o core_modules ]

\* ', '.join(education['details']['core_modules']), escaped as one string
education_core_modules(acc, core_modules) ==
  emit_escaped(acc, join(<< ",", " " >>, core_modules))

generate_education(edu) ==
  LET a1 == emit_escaped(emit(empty_latex, education_tpl_1), edu.institution)
      a2 == emit_escaped(emit(a1, education_tpl_2), edu.location)
      a3 == emit_escaped(emit(a2, education_tpl_3), edu.degree)
      a4 == emit_escaped(emit(a3, education_tpl_4), edu.period)
      a5 == education_core_modules(emit(a4, education_tpl_5), edu.details.core_modules)
      a6 == emit_escaped(emit(a5, education_tpl_6), edu.details.grade)
  IN  emit(a6, education_tpl_7)

\* for description in exp['description']: one \resumeItem line each
RECURSIVE experience_items(_, _)
experience_items(acc, description) ==
  IF description = << >> THEN acc
  ELSE experience_items(
         emit(emit_escaped(emit(acc, experience_item_1), Head(description)), experience_item_2),
         Tail(description))

\* experience_entry writing the list markup whatever the description holds.
experience_entry_always_list(acc, exp) ==
  LET a1 == emit_escaped(emit(acc, experience_tpl_1), exp.company)
      a2 == emit_escaped(emit(a1, experience_tpl_2), exp.location)
      a3 == emit_escaped(emit(a2, experience_tpl_3), exp.position)
      a4 == emit(emit_escaped(emit(a3, experience_tpl_4), exp.period), experience_tpl_5)
  IN  emit(experience_items(emit(a4, experience_list_start), exp.description),
           experience_list_end)

\* The body of "for exp in experiences".
experience_entry(acc, exp) ==
  LET a1 == emit_escaped(emit(acc, experience_tpl_1), exp.company)
      a2 == emit_escaped(emit(a1, experience_tpl_2), exp.location)
      a3 == emit_escaped(emit(a2, experience_tpl_3), exp.position)
      a4 == emit(emit_escaped(emit(a3, experience_tpl_4), exp.period), experience_tpl_5)
  IN  IF exp.description # << >>
      THEN emit(experience_items(emit(a4, experience_list_start), exp.description),
                experience_list_end)
      ELSE emit(a4, experience_no_list)

RECURSIVE experience_loop(_, _)
experience_loop(acc, exps) ==
  IF exps = << >> THEN acc
  ELSE experience_loop(experience_entry(acc, Head(exps)), Tail(exps))

generate_professional_experience(exps) ==
  emit(experience_loop(emit(empty_latex, experience_open), exps), experience_close)

\* for description in project['description']: one \resumeItem line each
RECURSIVE project_items(_, _)
project_items(acc, description) ==
  IF description = << >> THEN acc
  ELSE project_items(
         emit(emit_escaped(emit(acc, project_item_1), Head(description)), project_item_2),
         Tail(description))

\* project_entry testing the description the way experience_entry does.
project_entry_truthy(acc, project) ==
  LET a1 == emit_escaped(emit(acc, project_tpl_1), project.name)
      a2 == emit(emit_escaped(emit(a1, project_tpl_2), project.period), project_tpl_3)
  IN  IF "description" \in DOMAIN project /\ project.description # << >>
      THEN emit(project_items(emit(a2, project_list_start), project.description),
                project_list_end)
      ELSE emit(a2, project_no_list)

\* project_entry with the project name put into the template as it is.
project_entry_raw_name(acc, project) ==
  LET a1 == emit(emit(acc, project_tpl_1), project.name)
      a2 == emit(emit_escaped(emit(a1, project_tpl_2), project.period), project_tpl_3)
  IN  IF "description" \in DOMAIN project
      THEN emit(project_items(emit(a2, project_list_start), project.description),
                project_list_end)
      ELSE emit(a2, project_no_list)

\* The body of "for project in projects". A project is a dict: the key
\* 'description' is in its domain or not.
project_entry(acc, project) ==
  LET a1 == emit_escaped(emit(acc, project_tpl_1), project.name)
      a2 == emit(emit_escaped(emit(a1, project_tpl_2), project.period), project_tpl_3)
  IN  IF "description" \in DOMAIN project
      THEN emit(project_items(emit(a2, project_list_start), project.description),
                project_list_end)
      ELSE emit(a2, project_no_list)

RECURSIVE project_loop(_, _)
project_loop(acc, projs) ==
  IF projs = << >> THEN acc
  ELSE project_loop(project_entry(acc, Head(projs)), Tail(projs))

generate_project_experience(projs) ==
  emit(project_loop(emit(empty_latex, project_open), projs), project_close)

\* [f"{lang['language']} ({lang['proficiency']})" for lang in languages]
language_pairs(languages) ==
  [ i \in 1..Len(languages) |->
      languages[i].language \o language_pair_1 \o languages[i].proficiency \o language_pair_2 ]

\* languages_str and skills_str: joined, then escaped as one string each
additional_languages(acc, languages) ==
  emit_escaped(acc, join(<< ",", " " >>, language_pairs(languages)))

additional_skills(acc, skills) ==
  emit_escaped(acc, join(<< ",", " " >>, skills))

generate_additional_information(info) ==
  LET a1 == additional_languages(emit(empty_latex, additional_tpl_1), info.languages)
      a2 == additional_skills(emit(a1, additional_tpl_2), info.skills)
  IN  emit(a2, additional_tpl_3)

(***************************************************************************)
(* The document assembler                                                  *)
(***************************************************************************)

\* generate_resume_latex leaving out the experience section of a record without
\* experience.
generate_resume_latex_skips_empty(data) ==
  LET c0 == emit(empty_latex, generate_latex_header)
      c1 == concat(c0, generate_heading(data.personal_info))
      c2 == concat(c1, generate_education(data.education))
      c3 == IF data.professional_experience = << >> THEN c2
            ELSE concat(c2, generate_professional_experience(data.professional_experience))
      c4 == concat(c3, generate_project_experience(data.project_experience))
      c5 == concat(c4, generate_additional_information(data.additional_information))
  IN  emit(c5, generate_latex_footer)

generate_resume_latex(data) ==
  LET c0 == emit(empty_latex, generate_latex_header)
      c1 == concat(c0, generate_heading(data.personal_info))
      c2 == concat(c1, generate_education(data.education))
      c3 == concat(c2, generate_professional_experience(data.professional_experience))
      c4 == concat(c3, generate_project_experience(data.project_experience))
      c5 == concat(c4, generate_additional_information(data.additional_information))
  IN  emit(c5, generate_latex_footer)

(***************************************************************************)
(* Bounds and input sets                                                   *)
(***************************************************************************)

\* The longest text handed to escape_latex on its own.
MaxLen == 3

\* All sequences over S of length at most n.
SeqsUpTo(S, n) == UNION { [1..k -> S] : k \in 0..n }

\* The characters the target markup gives a meaning to, and one that it does not.
MarkupChars == { "\\", "&", "%", "$", "#", "{", "}", "~", "^" }
EscapeAlphabet == MarkupChars \cup { "a" }
Texts == SeqsUpTo(EscapeAlphabet, MaxLen)

(***************************************************************************)
(* Specification SpecEscape: one call of escape_latex on any text          *)
(***************************************************************************)

\* What the variables hold while the code that owns them is not running.
NoRecord == [ personal_info |-> << >> ]
EscapeIdle == text = << >> /\ escaped = None
RecordIdle == resume_data = NoRecord
BuilderIdle ==
  experiences = << >> /\ projects = << >> /\ education = << >> /\ additional_info = << >>
OutputIdle == latex_content = << >> /\ escape_calls = << >>
CheckerIdle ==
  file_content = None /\ content_no_comments = None /\ issues = None /\ valid = None
\* compile_latex_to_pdf is not part of the run.
CompileIdle ==
  /\ latex_file = None /\ environment = None /\ pdflatex_path = None
  /\ user_input = None /\ fs = { } /\ dirs = { } /\ cwd = None /\ temp_dir = None
  /\ original_dir = None /\ result = None /\ subprocess_calls = << >>
  /\ relayed = << >> /\ returned = "not called"

\* main is not part of the run.
ArgsIdle ==
  /\ args_validate = FALSE /\ args_pdf = FALSE /\ json_file = None
  /\ args_check = FALSE /\ args_input_file = None
  /\ exit_code = None /\ reports = << >>

MainIdle ==
  args_output = None /\ output_file = None /\ CheckerIdle /\ CompileIdle /\ ArgsIdle

InitEscape ==
  /\ pc = "escape_latex"
  /\ text \in Texts
  /\ escaped = None
  /\ RecordIdle /\ BuilderIdle /\ OutputIdle /\ MainIdle

EscapeLatex ==
  /\ pc = "escape_latex"
  /\ escaped' = escape_latex(text)
  /\ pc' = "escaped"
  /\ UNCHANGED << text, resume_data, experiences, projects, education, additional_info,
                  latex_content, escape_calls, args_output, output_file,
                  checker_vars, compile_vars, main_vars >>

NextEscape == EscapeLatex

SpecEscape == InitEscape /\ [][NextEscape]_vars

(***************************************************************************)
(* Specification SpecDocument: generate_resume_latex on a valid record     *)
(***************************************************************************)

\* The most entries of professional_experience and of project_experience in
\* a record handed to generate_resume_latex.
MaxDocEntries == 1

BasePersonalInfo ==
  [ name |-> << "N", "o" >>, phone |-> << "1" >>, email |-> << "e" >>,
    location |-> << "L" >>, website |-> << "w" >> ]

DocPersonalInfos ==
  { BasePersonalInfo,
    [ BasePersonalInfo EXCEPT !.name = << "{" >> ],
    [ BasePersonalInfo EXCEPT !.email = << "&", "%" >>, !.website = << >> ] }

BaseEducation ==
  [ institution |-> << "U" >>, location |-> << "C" >>, degree |-> << "D" >>,
    period |-> << "2" >>,
    details |-> [ core_modules |-> << << "m" >> >>, grade |-> << "g" >> ] ]

DocEducations ==
  { BaseEducation,
    [ BaseEducation EXCEPT !.details.core_modules = << >> ],
    [ BaseEducation EXCEPT !.details.core_modules = << << "m" >>, << "}" >> >>,
                           !.degree = << "\\", "{" >> ] }

DocExperiences ==
  { [ company |-> << "c" >>, location |-> << "l" >>, position |-> << "p" >>,
      period |-> << "3" >>, description |-> << >> ],
    [ company |-> << "%" >>, location |-> << "l" >>, position |-> << "p" >>,
      period |-> << "3" >>, description |-> << << "d" >>, << "{", "}" >> >> ] }

DocProjects ==
  { [ name |-> << "j" >>, period |-> << "4" >> ],
    [ name |-> << "&" >>, period |-> << "4" >>, description |-> << << "x" >> >> ] }

DocAdditionalInfos ==
  { [ languages |-> << >>, skills |-> << >> ],
    [ languages |-> << [ language |-> << "E" >>, proficiency |-> << "f" >> ],
                       [ language |-> << "F" >>, proficiency |-> << "%" >> ] >>,
      skills |-> << << "s" >>, << "t", "{" >>, << "u" >> >> ] }

Records ==
  { [ personal_info |-> p, education |-> e, professional_experience |-> x,
      project_experience |-> j, additional_information |-> a ] :
      p \in DocPersonalInfos, e \in DocEducations,
      x \in SeqsUpTo(DocExperiences, MaxDocEntries),
      j \in SeqsUpTo(DocProjects, MaxDocEntries),
      a \in DocAdditionalInfos }

InitDocument ==
  /\ pc = "generate_resume_latex"
  /\ resume_data \in Records
  /\ OutputIdle /\ EscapeIdle /\ BuilderIdle /\ MainIdle

GenerateResumeLatex ==
  /\ pc = "generate_resume_latex"
  /\ LET r == generate_resume_latex(resume_data)
     IN  /\ latex_content' = r.latex
         /\ escape_calls' = r.calls
  /\ pc' = "generated"
  /\ UNCHANGED << text, escaped, resume_data, experiences, projects, education,
                  additional_info, args_output, output_file,
                  checker_vars, compile_vars, main_vars >>

NextDocument == GenerateResumeLatex

SpecDocument == InitDocument /\ [][NextDocument]_vars

(***************************************************************************)
(* Specifications SpecExperience, SpecProject: one call of a list builder  *)
(***************************************************************************)

\* The most entries of a sequence handed to a list builder, and the most
\* bullets of one entry.
MaxEntries == 2
MaxItems == 2

DescriptionTexts == { << "d" >>, << "{", "e" >> }
Descriptions == SeqsUpTo(DescriptionTexts, MaxItems)

ExperienceEntries ==
  { [ company |-> << "c" >>, location |-> << "l" >>, position |-> << "p" >>,
      period |-> << "3" >>, description |-> d ] : d \in Descriptions }
  \cup
  { [ company |-> << "%", "k" >>, location |-> << >>, position |-> << "&" >>,
      period |-> << "3" >>, description |-> << >> ] }

InitExperience ==
  /\ pc = "generate_professional_experience"
  /\ experiences \in SeqsUpTo(ExperienceEntries, MaxEntries)
  /\ projects = << >> /\ education = << >> /\ additional_info = << >>
  /\ OutputIdle /\ EscapeIdle /\ RecordIdle /\ MainIdle

GenerateProfessionalExperience ==
  /\ pc = "generate_professional_experience"
  /\ LET r == generate_professional_experience(experiences)
     IN  /\ latex_content' = r.latex
         /\ escape_calls' = r.calls
  /\ pc' = "experience_generated"
  /\ UNCHANGED << text, escaped, resume_data, experiences, projects, education,
                  additional_info, args_output, output_file,
                  checker_vars, compile_vars, main_vars >>

NextExperience == GenerateProfessionalExperience

SpecExperience == InitExperience /\ [][NextExperience]_vars

ProjectEntries ==
  { [ name |-> << "j" >>, period |-> << "4" >>, description |-> d ] : d \in Descriptions }
  \cup
  { [ name |-> << "j" >>, period |-> << "4" >> ],
    [ name |-> << "&", "q" >>, period |-> << >> ] }

InitProject ==
  /\ pc = "generate_project_experience"
  /\ projects \in SeqsUpTo(ProjectEntries, MaxEntries)
  /\ experiences = << >> /\ education = << >> /\ additional_info = << >>
  /\ OutputIdle /\ EscapeIdle /\ RecordIdle /\ MainIdle

GenerateProjectExperience ==
  /\ pc = "generate_project_experience"
  /\ LET r == generate_project_experience(projects)
     IN  /\ latex_content' = r.latex
         /\ escape_calls' = r.calls
  /\ pc' = "project_generated"
  /\ UNCHANGED << text, escaped, resume_data, experiences, projects, education,
                  additional_info, args_output, output_file,
                  checker_vars, compile_vars, main_vars >>

NextProject == GenerateProjectExperience

SpecProject == InitProject /\ [][NextProject]_vars

(***************************************************************************)
(* Specification SpecJoin: one call of a builder that joins a list         *)
(***************************************************************************)

ModuleNames == { << "A" >>, << "B" >>, << "A", ",", " ", "B" >>, << "&" >> }
ModuleLists == SeqsUpTo(ModuleNames, MaxItems)

Educations ==
  { [ BaseEducation EXCEPT !.details.core_modules = ms ] : ms \in ModuleLists }

LanguagePairs ==
  { [ language |-> << "E" >>, proficiency |-> << "f" >> ],
    [ language |-> << "F" >>, proficiency |-> << "%" >> ] }

SkillNames == { << "s" >>, << "t" >>, << "s", ",", " ", "t" >> }
SkillLists == SeqsUpTo(SkillNames, MaxItems)

AdditionalInfos ==
  { [ languages |-> l, skills |-> k ] :
      l \in SeqsUpTo(LanguagePairs, MaxItems), k \in SkillLists }

InitJoin ==
  /\ \/ /\ pc = "generate_education"
        /\ education \in Educations
        /\ additional_info = << >>
     \/ /\ pc = "generate_additional_information"
        /\ additional_info \in AdditionalInfos
        /\ education = << >>
  /\ experiences = << >> /\ projects = << >>
  /\ OutputIdle /\ EscapeIdle /\ RecordIdle /\ MainIdle

GenerateEducation ==
  /\ pc = "generate_education"
  /\ LET r == generate_education(education)
     IN  /\ latex_content' = r.latex
         /\ escape_calls' = r.calls
  /\ pc' = "education_generated"
  /\ UNCHANGED << text, escaped, resume_data, experiences, projects, education,
                  additional_info, args_output, output_file,
                  checker_vars, compile_vars, main_vars >>

GenerateAdditionalInformation ==
  /\ pc = "generate_additional_information"
  /\ LET r == generate_additional_information(additional_info)
     IN  /\ latex_content' = r.latex
         /\ escape_calls' = r.calls
  /\ pc' = "additional_generated"
  /\ UNCHANGED << text, escaped, resume_data, experiences, projects, education,
                  additional_info, args_output, output_file,
                  checker_vars, compile_vars, main_vars >>

NextJoin == GenerateEducation \/ GenerateAdditionalInformation

SpecJoin == InitJoin /\ [][NextJoin]_vars

(***************************************************************************)
(* Specification SpecFilename: main choosing the output file name          *)
(***************************************************************************)

\* The longest person name built from NameAlphabet.
MaxNameLen == 3

NameAlphabet == { "a", "Z", "7", " ", "-", "_", "'" }

\* The names the README and the specification give as examples.
JohnDoe == << "J", "o", "h", "n", " ", "D", "o", "e" >>
MaryJaneSmith ==
  << "M", "a", "r", "y", " ", "J", "a", "n", "e", " ", "S", "m", "i", "t", "h" >>
MaryJaneOBrien ==
  << "M", "a", "r", "y", " ", " ", "J", "a", "n", "e", " ", "O", "'", "B", "r", "i", "e", "n" >>

Names == SeqsUpTo(NameAlphabet, MaxNameLen) \cup { JohnDoe, MaryJaneSmith, MaryJaneOBrien }

\* -o absent, -o '' and -o out.tex
custom_path == << "o", "u", "t", ".", "t", "e", "x" >>
OutputArgs == { None, << >>, custom_path }

InitFilename ==
  /\ pc = "determine_output_file"
  /\ resume_data \in { [ personal_info |-> [ BasePersonalInfo EXCEPT !.name = n ] ] : n \in Names }
  /\ args_output \in OutputArgs
  /\ output_file = None
  /\ OutputIdle /\ EscapeIdle /\ BuilderIdle /\ CheckerIdle /\ CompileIdle /\ ArgsIdle

DetermineOutputFile ==
  /\ pc = "determine_output_file"
  /\ output_file' = determine_output_file(args_output, resume_data)
  /\ pc' = "output_file_determined"
  /\ UNCHANGED << text, escaped, resume_data, experiences, projects, education,
                  additional_info, latex_content, escape_calls, args_output,
                  checker_vars, compile_vars, main_vars >>

NextFilename == DetermineOutputFile

SpecFilename == InitFilename /\ [][NextFilename]_vars

(***************************************************************************)
(* Specification SpecChecker: one call of validate_latex_syntax            *)
(***************************************************************************)

\* The most pieces a scanned file is made of.
MaxPieces == 4

\* What a scanned file is made of: the three required elements, the
\* characters the checks look at, a word character and a line break.
ContentPieces ==
  { required_elements[1], required_elements[2], required_elements[3],
    << "&" >>, << "%" >>, << "\\" >>, << "{" >>, << "}" >>, << "a" >>, << "\n" >> }

FileContents == { flatten(ps) : ps \in SeqsUpTo(ContentPieces, MaxPieces) } \cup { None }

InitChecker ==
  /\ pc = "validate_latex_syntax"
  /\ file_content \in FileContents
  /\ content_no_comments = None /\ issues = None /\ valid = None
  /\ args_output = None /\ output_file = None
  /\ OutputIdle /\ EscapeIdle /\ BuilderIdle /\ RecordIdle /\ CompileIdle /\ ArgsIdle

ValidateLatexSyntax ==
  /\ pc = "validate_latex_syntax"
  /\ LET r == validate_latex_syntax(file_content)
     IN  /\ content_no_comments' = r.content_no_comments
         /\ issues' = r.issues
         /\ valid' = r.result
  /\ pc' = "validated"
  /\ UNCHANGED << text, escaped, resume_data, experiences, projects, education,
                  additional_info, latex_content, escape_calls, args_output, output_file,
                  file_content, compile_vars, main_vars >>

NextChecker == ValidateLatexSyntax

SpecChecker == InitChecker /\ [][NextChecker]_vars

(***************************************************************************)
(* Specification SpecCompile: one call of compile_latex_to_pdf             *)
(***************************************************************************)

Home == << "home" >>
Docs == << "docs" >>
Dirs == { Home, Docs }

\* The directory tempfile.TemporaryDirectory() creates.
TempDir == << "tmp" >>

\* Files the compiler may leave in its working directory, and what it may
\* write to its two streams.
CompilerSuffixes == { ".pdf", ".aux", ".log" }
ReturnCodes == { 0, 1 }
CompilerStdout == { "", "This is pdfTeX" }
CompilerStderr == { "", "! Emergency stop" }

\* What the user may type at the prompt.
Answers ==
  { << "y" >>, << "Y" >>, << "y", "e", "s" >>, << " ", "Y", "E", "S", " " >>,
    << "n" >>, << >>, << "y", "e", "a", "h" >>, << "o", "k" , "a", "y" >> }

Platforms == { "Darwin", "Linux", "Windows", "Java" }
PackageManagers == { "apt-get", "yum", "none" }
InstallFailures == { "none", "CalledProcessError", "FileNotFoundError", "KeyboardInterrupt" }

\* A machine with a compiler: nothing is asked and nothing is installed.
MachinesWithCompiler ==
  { [ which |-> w, existing |-> e, platform |-> "Linux", package_manager |-> "none",
      install_failure |-> "none", install_fail_at |-> 1, cwd |-> d ] :
      w \in BOOLEAN, e \in { { }, { common_paths[5] }, { common_paths[4], common_paths[6] } },
      d \in Dirs }
  \ { m \in [ which : { FALSE }, existing : { { } }, platform : { "Linux" },
              package_manager : { "none" }, install_failure : { "none" },
              install_fail_at : { 1 }, cwd : Dirs ] : TRUE }

\* A machine without one.
MachinesWithoutCompiler ==
  [ which : { FALSE }, existing : { { } }, platform : Platforms,
    package_manager : PackageManagers, install_failure : InstallFailures,
    install_fail_at : { 1, 2 }, cwd : { Home } ]

\* The source document, and the files that may be there before the call.
SourceFiles == { << d, "resume", ".tex" >> : d \in Dirs }
FilesBefore(source, d) ==
  { { << Home, "notes", ".txt" >> } \cup present \cup leftovers :
      present \in { { }, { source } },
      leftovers \in { { }, { << d, "resume", ".aux" >> } } }

InitCompile ==
  /\ pc = "compile_latex_to_pdf"
  /\ latex_file \in SourceFiles
  /\ environment \in MachinesWithCompiler \cup MachinesWithoutCompiler
  /\ cwd = environment.cwd
  /\ dirs = Dirs
  /\ fs \in FilesBefore(latex_file, cwd)
  /\ (environment \in MachinesWithoutCompiler =>
        latex_file = << Home, "resume", ".tex" >> /\ fs = { << Home, "notes", ".txt" >>, latex_file })
  /\ pdflatex_path = None /\ user_input = None /\ temp_dir = None /\ original_dir = None
  /\ result = None /\ subprocess_calls = << >> /\ relayed = << >> /\ returned = "not called"
  /\ args_output = None /\ output_file = None
  /\ OutputIdle /\ EscapeIdle /\ BuilderIdle /\ RecordIdle /\ CheckerIdle /\ ArgsIdle

\* What a step of compile_latex_to_pdf leaves alone outside its own variables.
CompileFrame ==
  UNCHANGED << text, escaped, resume_data, experiences, projects, education,
               additional_info, latex_content, escape_calls, args_output, output_file,
               checker_vars, latex_file, environment, main_vars >>

\* Leaving the with block before the try block was entered: the temporary
\* directory is removed, nothing changes the working directory.
LeaveWith(value, files) ==
  /\ dirs' = dirs \ { temp_dir }
  /\ fs' = remove_tree(files, temp_dir)
  /\ returned' = value
  /\ pc' = "returned"

\* Leaving the try block: the finally clause, then the end of the with block.
LeaveTry(value, files) ==
  /\ cwd' = original_dir
  /\ LeaveWith(value, files)

\* pdflatex_path = find_pdflatex()
FindPdflatex ==
  /\ pc = "compile_latex_to_pdf"
  /\ pdflatex_path' = find_pdflatex(environment)
  /\ returned' = "running"
  /\ pc' = IF find_pdflatex(environment) = None THEN "prompt" ELSE "temp_dir"
  /\ UNCHANGED << user_input, fs, dirs, cwd, temp_dir, original_dir, result,
                  subprocess_calls, relayed >>
  /\ CompileFrame

\* if not pdflatex_path: the prompt, install_latex on consent, return False
PromptInstall ==
  /\ pc = "prompt"
  /\ \E answer \in Answers \cup { EOFError, KeyboardInterrupt } :
       /\ user_input' = answer
       /\ subprocess_calls' =
            IF answer \in Answers /\ accepts_install(answer)
            THEN subprocess_calls \o install_latex(environment).commands
            ELSE subprocess_calls
  /\ returned' = "False"
  /\ pc' = "returned"
  /\ UNCHANGED << pdflatex_path, fs, dirs, cwd, temp_dir, original_dir, result, relayed >>
  /\ CompileFrame

\* with tempfile.TemporaryDirectory() as temp_dir
CreateTempDir ==
  /\ pc = "temp_dir"
  /\ \/ /\ temp_dir' = TempDir
        /\ dirs' = dirs \cup { TempDir }
        /\ pc' = "copy_source"
        /\ UNCHANGED returned
     \/ /\ returned' = "False"      \* mkdtemp raised OSError
        /\ pc' = "returned"
        /\ UNCHANGED << temp_dir, dirs >>
  /\ UNCHANGED << pdflatex_path, user_input, fs, cwd, original_dir, result,
                  subprocess_calls, relayed >>
  /\ CompileFrame

\* shutil.copy2(latex_file, temp_latex_file)
CopySource ==
  /\ pc = "copy_source"
  /\ \/ /\ latex_file \in fs
        /\ fs' = fs \cup { << temp_dir, latex_name(latex_file), ".tex" >> }
        /\ pc' = "chdir"
        /\ UNCHANGED << dirs, returned >>
     \/ LeaveWith("False", fs)                \* FileNotFoundError or another OSError
     \/ /\ latex_file \in fs
        /\ LeaveWith("KeyboardInterrupt", fs)
  /\ UNCHANGED << pdflatex_path, user_input, cwd, temp_dir, original_dir, result,
                  subprocess_calls, relayed >>
  /\ CompileFrame

\* original_dir = os.getcwd(); os.chdir(temp_dir); the try block is entered
\* next, unless an interrupt is delivered before.
ChangeDir ==
  /\ pc = "chdir"
  /\ original_dir' = cwd
  /\ cwd' = temp_dir
  /\ \/ /\ pc' = "run"
        /\ UNCHANGED << fs, dirs, returned >>
     \/ LeaveWith("KeyboardInterrupt", fs)
  /\ UNCHANGED << pdflatex_path, user_input, temp_dir, result, subprocess_calls, relayed >>
  /\ CompileFrame

\* result = subprocess.run([pdflatex_path, "-interaction=nonstopmode", ...])
RunPdflatex ==
  /\ pc = "run"
  /\ subprocess_calls' =
       Append(subprocess_calls,
              pdflatex_command(pdflatex_path, latex_file))
  /\ \/ \E code \in ReturnCodes, made \in SUBSET CompilerSuffixes,
           out \in CompilerStdout, err \in CompilerStderr :
          /\ result' = << code, out, err >>
          /\ fs' = fs \cup { << cwd, latex_name(latex_file), x >> : x \in made }
          /\ pc' = "check"
          /\ UNCHANGED << dirs, cwd, returned >>
     \/ /\ LeaveTry("False", fs)              \* OSError: the compiler could not be started
        /\ UNCHANGED result
     \/ /\ LeaveTry("KeyboardInterrupt", fs)
        /\ UNCHANGED result
  /\ UNCHANGED << pdflatex_path, user_input, temp_dir, original_dir, relayed >>
  /\ CompileFrame

\* The rest of the try block: the return code, the artifact, the cleanup loop.
CheckResult ==
  /\ pc = "check"
  /\ \/ /\ result[1] # 0
        /\ relayed' = relayed \o relay(result)
        /\ LeaveTry("False", fs)
     \/ /\ result[1] = 0
        /\ << cwd, latex_name(latex_file), ".pdf" >> \in fs
        /\ \E kept \in SUBSET (temp_files(original_dir, latex_file) \cap fs) :
             LeaveTry(IF compile_succeeded(result[1], TRUE, TRUE) THEN "True" ELSE "False",
                      ((fs \cup { output_pdf(original_dir, latex_file) })
                         \ temp_files(original_dir, latex_file)) \cup kept)
        /\ UNCHANGED relayed
     \/ /\ result[1] = 0
        /\ << cwd, latex_name(latex_file), ".pdf" >> \in fs
        /\ \E value \in { "False", "KeyboardInterrupt" } :   \* the copy back raised
             LeaveTry(value, fs)
        /\ UNCHANGED relayed
     \/ /\ result[1] = 0
        /\ << cwd, latex_name(latex_file), ".pdf" >> \notin fs
        /\ LeaveTry(IF compile_succeeded(result[1], FALSE, FALSE) THEN "True" ELSE "False", fs)
        /\ UNCHANGED relayed
  /\ UNCHANGED << pdflatex_path, user_input, temp_dir, original_dir, result, subprocess_calls >>
  /\ CompileFrame

NextCompile ==
  \/ FindPdflatex
  \/ PromptInstall
  \/ CreateTempDir
  \/ CopySource
  \/ ChangeDir
  \/ RunPdflatex
  \/ CheckResult

SpecCompile == InitCompile /\ [][NextCompile]_vars

(***************************************************************************)
(* main in generate mode: an input file that is not a .tex file, no -t and *)
(* no -c                                                                   *)
(***************************************************************************)

\* The keys the builders and generate_output_filename index the record with.
has_required_fields(data) ==
  /\ { "personal_info", "education", "professional_experience", "project_experience",
       "additional_information" } \subseteq DOMAIN data
  /\ { "name", "phone", "email", "location", "website" } \subseteq DOMAIN data.personal_info
  /\ { "institution", "location", "degree", "period", "details" } \subseteq DOMAIN data.education
  /\ { "core_modules", "grade" } \subseteq DOMAIN data.education.details
  /\ \A i \in 1..Len(data.professional_experience) :
       { "company", "location", "position", "period", "description" }
         \subseteq DOMAIN data.professional_experience[i]
  /\ \A i \in 1..Len(data.project_experience) :
       { "name", "period" } \subseteq DOMAIN data.project_experience[i]
  /\ { "languages", "skills" } \subseteq DOMAIN data.additional_information
  /\ \A i \in 1..Len(data.additional_information.languages) :
       { "language", "proficiency" } \subseteq DOMAIN data.additional_information.languages[i]

\* The exit status of the interpreter after an exception nobody caught.
uncaught_exception_status == 1
keyboard_interrupt_status == 130

\* Where main goes once the document is written and, with -v, has passed.
after_validation(pdf) == IF pdf THEN "compile_latex_to_pdf" ELSE "exited"
after_write(validate, pdf) == IF validate THEN "validate" ELSE after_validation(pdf)

(***************************************************************************)
(* Specification SpecMain: one run of main in generate mode                *)
(***************************************************************************)

\* A record without one of its keys.
without(r, key) == [ k \in DOMAIN r \ { key } |-> r[k] ]

\* A complete record whose document passes the check, and one whose document
\* does not.
MainRecord ==
  [ personal_info |-> BasePersonalInfo, education |-> BaseEducation,
    professional_experience |->
      << [ company |-> << "c" >>, location |-> << "l" >>, position |-> << "p" >>,
           period |-> << "3" >>, description |-> << << "d" >> >> ] >>,
    project_experience |-> << [ name |-> << "j" >>, period |-> << "4" >> ] >>,
    additional_information |->
      [ languages |-> << [ language |-> << "E" >>, proficiency |-> << "f" >> ] >>,
        skills |-> << << "s" >> >> ] ]

MainRecordWithBrace ==
  [ MainRecord EXCEPT !.personal_info.name = << "A", "{", "B" >> ]

\* Records that lack a key.
IncompleteRecords ==
  { without(MainRecord, k) : k \in DOMAIN MainRecord }
  \cup { [ MainRecord EXCEPT !.personal_info = without(@, "name") ],
         [ MainRecord EXCEPT !.education.details = without(@, "grade") ],
         [ MainRecord EXCEPT !.professional_experience[1] = without(@, "description") ],
         [ MainRecord EXCEPT !.project_experience[1] = without(@, "period") ],
         [ MainRecord EXCEPT !.additional_information = without(@, "skills") ],
         [ MainRecord EXCEPT !.additional_information.languages[1] = without(@, "proficiency") ] }

\* What the input file may hold.
JsonFiles ==
  { << "missing" >>, << "invalid JSON" >> }
  \cup { << "JSON", r >> : r \in { MainRecord, MainRecordWithBrace } \cup IncompleteRecords }

\* The name of the input file.
json_path == << "r", ".", "j", "s", "o", "n" >>

\* What the output file may hold before the run.
old_content == << "o", "l", "d" >>

\* The machines of a run.
MainMachines ==
  { [ which |-> TRUE, existing |-> { }, platform |-> "Linux", package_manager |-> "none",
      install_failure |-> "none", install_fail_at |-> 1, cwd |-> Home ],
    [ which |-> FALSE, existing |-> { }, platform |-> "Linux", package_manager |-> "apt-get",
      install_failure |-> "none", install_fail_at |-> 1, cwd |-> Home ] }

InitMain ==
  /\ pc = "main"
  /\ json_file \in JsonFiles
  /\ args_output \in { None, custom_path }
  /\ args_validate \in BOOLEAN
  /\ args_pdf \in BOOLEAN
  /\ args_check = FALSE
  /\ args_input_file = json_path
  /\ exit_code = None /\ reports = << >>
  /\ output_file = None
  /\ file_content \in { None, old_content }
  /\ content_no_comments = None /\ issues = None /\ valid = None
  /\ latex_file = << Home, "resume", ".tex" >>
  /\ environment \in MainMachines
  /\ cwd = environment.cwd
  /\ dirs = Dirs
  /\ fs = { << Home, "notes", ".txt" >> } \cup (IF file_content = None THEN { } ELSE { latex_file })
  /\ pdflatex_path = None /\ user_input = None /\ temp_dir = None /\ original_dir = None
  /\ result = None /\ subprocess_calls = << >> /\ relayed = << >> /\ returned = "not called"
  /\ OutputIdle /\ EscapeIdle /\ BuilderIdle /\ RecordIdle

\* sys.exit(code), or the end of the process after an uncaught exception
Exit(code, report) ==
  /\ pc' = "exited"
  /\ exit_code' = code
  /\ reports' = Append(reports, report)

\* What no step of main changes.
MainFrame ==
  UNCHANGED << text, escaped, experiences, projects, education, additional_info,
               args_output, args_validate, args_pdf, args_check, args_input_file,
               json_file >>

\* A variant that opens the output file before it reads the input.
LoadResumeDataAfterOpen ==
  /\ pc = "main"
  /\ file_content' = << >>
  /\ fs' = fs \cup { latex_file }
  /\ \/ /\ json_file[1] = "missing"
        /\ Exit(1, "not found")
        /\ UNCHANGED resume_data
     \/ /\ json_file[1] = "invalid JSON"
        /\ Exit(1, "Invalid JSON")
        /\ UNCHANGED resume_data
     \/ /\ json_file[1] = "JSON"
        /\ resume_data' = json_file[2]
        /\ pc' = "generate"
        /\ UNCHANGED << exit_code, reports >>
  /\ UNCHANGED << latex_content, escape_calls, output_file, content_no_comments, issues, valid,
                  latex_file, environment, pdflatex_path, user_input, dirs, cwd,
                  temp_dir, original_dir, result, subprocess_calls, relayed, returned >>
  /\ MainFrame

\* resume_data = load_resume_data(args.input_file)
LoadResumeData ==
  /\ pc = "main"
  /\ \/ /\ json_file[1] = "missing"
        /\ Exit(1, "not found")
        /\ UNCHANGED resume_data
     \/ /\ json_file[1] = "invalid JSON"
        /\ Exit(1, "Invalid JSON")
        /\ UNCHANGED resume_data
     \/ /\ json_file[1] = "JSON"
        /\ resume_data' = json_file[2]
        /\ pc' = "generate"
        /\ UNCHANGED << exit_code, reports >>
  /\ UNCHANGED << latex_content, escape_calls, output_file, checker_vars, compile_vars >>
  /\ MainFrame

\* latex_content = generate_resume_latex(resume_data), then the output file name
GenerateDocument ==
  /\ pc = "generate"
  /\ \/ /\ ~has_required_fields(resume_data)
        /\ Exit(uncaught_exception_status, "Traceback: KeyError")
        /\ UNCHANGED << latex_content, escape_calls, output_file >>
     \/ /\ has_required_fields(resume_data)
        /\ latex_content' = generate_resume_latex(resume_data).latex
        /\ escape_calls' = generate_resume_latex(resume_data).calls
        /\ output_file' = determine_output_file(args_output, resume_data)
        /\ pc' = "write"
        /\ UNCHANGED << exit_code, reports >>
  /\ UNCHANGED << resume_data, checker_vars, compile_vars >>
  /\ MainFrame

\* with open(output_file, 'w') as f: f.write(latex_content)
WriteDocument ==
  /\ pc = "write"
  /\ \/ /\ file_content' = latex_content
        /\ fs' = fs \cup { latex_file }
        /\ reports' = Append(reports, "Resume generated successfully")
        /\ pc' = after_write(args_validate, args_pdf)
        /\ exit_code' = IF after_write(args_validate, args_pdf) = "exited" THEN 0 ELSE exit_code
     \/ /\ Exit(1, "Error writing")           \* open raised OSError
        /\ UNCHANGED << file_content, fs >>
  /\ UNCHANGED << resume_data, latex_content, escape_calls, output_file,
                  content_no_comments, issues, valid,
                  latex_file, environment, pdflatex_path, user_input, dirs, cwd,
                  temp_dir, original_dir, result, subprocess_calls, relayed, returned >>
  /\ MainFrame

\* A variant in which -v reports the findings and the run goes on.
ValidateDocumentLenient ==
  /\ pc = "validate"
  /\ content_no_comments' = validate_latex_syntax(file_content).content_no_comments
  /\ issues' = validate_latex_syntax(file_content).issues
  /\ valid' = validate_latex_syntax(file_content).result
  /\ reports' = Append(reports, IF validate_latex_syntax(file_content).result
                                THEN "validation completed successfully"
                                ELSE "validation found issues")
  /\ pc' = after_validation(args_pdf)
  /\ exit_code' = IF after_validation(args_pdf) = "exited" THEN 0 ELSE exit_code
  /\ UNCHANGED << resume_data, latex_content, escape_calls, output_file, file_content,
                  compile_vars >>
  /\ MainFrame

\* if args.validate: validate_latex_syntax(output_file)
ValidateDocument ==
  /\ pc = "validate"
  /\ content_no_comments' = validate_latex_syntax(file_content).content_no_comments
  /\ issues' = validate_latex_syntax(file_content).issues
  /\ valid' = validate_latex_syntax(file_content).result
  /\ \/ /\ validate_latex_syntax(file_content).result
        /\ reports' = Append(reports, "validation completed successfully")
        /\ pc' = after_validation(args_pdf)
        /\ exit_code' = IF after_validation(args_pdf) = "exited" THEN 0 ELSE exit_code
     \/ /\ ~validate_latex_syntax(file_content).result
        /\ Exit(1, "validation found issues")
  /\ UNCHANGED << resume_data, latex_content, escape_calls, output_file, file_content,
                  compile_vars >>
  /\ MainFrame

\* if args.pdf: what follows the return of compile_latex_to_pdf(output_file)
FinishCompile ==
  /\ pc = "returned"
  /\ \/ /\ returned = "True"
        /\ Exit(0, "PDF compilation completed successfully")
     \/ /\ returned = "False"
        /\ Exit(1, "PDF compilation failed")
     \/ /\ returned = "KeyboardInterrupt"
        /\ Exit(keyboard_interrupt_status, "Traceback: KeyboardInterrupt")
  /\ UNCHANGED << resume_data, latex_content, escape_calls, output_file, checker_vars,
                  compile_vars >>
  /\ MainFrame

NextMain ==
  \/ LoadResumeData
  \/ GenerateDocument
  \/ WriteDocument
  \/ ValidateDocument
  \/ FindPdflatex
  \/ PromptInstall
  \/ CreateTempDir
  \/ CopySource
  \/ ChangeDir
  \/ RunPdflatex
  \/ CheckResult
  \/ FinishCompile

SpecMain == InitMain /\ [][NextMain]_vars

(***************************************************************************)
(* Specification SpecCheckMode: one run of main with -c and without -t     *)
(***************************************************************************)

\* The name of the file to check.
tex_path == << "r", ".", "t", "e", "x" >>

\* What the file may hold: nothing that can be read, two pieces at most, or
\* the three required elements.
CheckedFiles ==
  { None, required_elements[1] \o required_elements[2] \o required_elements[3] }
  \cup { p \o q : p \in ContentPieces \cup { << >> }, q \in ContentPieces \cup { << >> } }

InitCheckMode ==
  /\ pc = "main"
  /\ args_check = TRUE
  /\ args_input_file \in { None, tex_path }
  /\ args_output \in { None, custom_path }
  /\ args_validate \in BOOLEAN
  /\ args_pdf \in BOOLEAN
  /\ json_file = None
  /\ exit_code = None /\ reports = << >>
  /\ output_file = None
  /\ file_content \in CheckedFiles
  /\ content_no_comments = None /\ issues = None /\ valid = None
  /\ latex_file = << Home, "r", ".tex" >>
  /\ environment \in MainMachines
  /\ cwd = environment.cwd
  /\ dirs = Dirs
  /\ fs = { << Home, "notes", ".txt" >> } \cup (IF file_content = None THEN { } ELSE { latex_file })
  /\ pdflatex_path = None /\ user_input = None /\ temp_dir = None /\ original_dir = None
  /\ result = None /\ subprocess_calls = << >> /\ relayed = << >> /\ returned = "not called"
  /\ OutputIdle /\ EscapeIdle /\ BuilderIdle /\ RecordIdle

\* What open(filename) gives validate_latex_syntax: with no name, open(None)
\* raises TypeError as it does for a file that cannot be read.
opened(filename, content) == IF filename = None THEN None ELSE content

\* A variant of check mode that goes on to generate mode when the file passes.
CheckOnlyThenGenerate ==
  /\ pc = "main"
  /\ args_check
  /\ content_no_comments' = validate_latex_syntax(opened(args_input_file, file_content)).content_no_comments
  /\ issues' = validate_latex_syntax(opened(args_input_file, file_content)).issues
  /\ valid' = validate_latex_syntax(opened(args_input_file, file_content)).result
  /\ \/ /\ validate_latex_syntax(opened(args_input_file, file_content)).result
        /\ pc' = IF args_pdf THEN "compile_latex_to_pdf" ELSE "exited"
        /\ exit_code' = IF args_pdf THEN exit_code ELSE 0
     \/ /\ ~validate_latex_syntax(opened(args_input_file, file_content)).result
        /\ pc' = "exited"
        /\ exit_code' = 1
  /\ UNCHANGED << resume_data, latex_content, escape_calls, output_file, file_content,
                  compile_vars, reports >>
  /\ MainFrame

\* if args.check: validate_latex_syntax(args.input_file), sys.exit(0) or sys.exit(1)
CheckOnly ==
  /\ pc = "main"
  /\ args_check
  /\ content_no_comments' = validate_latex_syntax(opened(args_input_file, file_content)).content_no_comments
  /\ issues' = validate_latex_syntax(opened(args_input_file, file_content)).issues
  /\ valid' = validate_latex_syntax(opened(args_input_file, file_content)).result
  /\ pc' = "exited"
  /\ \/ /\ validate_latex_syntax(opened(args_input_file, file_content)).result
        /\ exit_code' = 0
     \/ /\ ~validate_latex_syntax(opened(args_input_file, file_content)).result
        /\ exit_code' = 1
  /\ UNCHANGED << resume_data, latex_content, escape_calls, output_file, file_content,
                  compile_vars, reports >>
  /\ MainFrame

NextCheckMode == CheckOnly

SpecCheckMode == InitCheckMode /\ [][NextCheckMode]_vars

(***************************************************************************)
(* Reading a text                                                          *)
(***************************************************************************)

\* The number of consecutive backslashes that end right before position j of s.
RECURSIVE BackslashesBefore(_, _)
BackslashesBefore(s, j) ==
  IF j > 1 /\ s[j - 1] = "\\" THEN 1 + BackslashesBefore(s, j - 1) ELSE 0

\* The character at position j of s is read by the markup as literal content.
EscapedAt(s, j) == BackslashesBefore(s, j) % 2 = 1

(***************************************************************************)
(* Claims about escape_latex                                               *)
(***************************************************************************)

\* C1: escape_latex replaces every occurrence of each of the nine
\* markup-significant characters (backslash, ampersand, percent, dollar, hash,
\* the two braces, tilde, caret) by its escaped form, so none of them reaches
\* the output in raw form. An escaped form is longer than the character it
\* stands for, so the output is longer than the input by at least the number
\* of such characters, and a text made of them never comes back unchanged.
C1_EveryMarkupCharReplaced ==
  pc = "escaped" =>
    /\ Len(escaped) >= Len(text) + Cardinality({ i \in 1..Len(text) : text[i] \in MarkupChars })
    /\ (\E i \in 1..Len(text) : text[i] \in MarkupChars) => escaped # text

\* C2: after one application of escape_latex, every ampersand, percent, dollar,
\* hash and brace of the output is preceded by an odd number of consecutive
\* backslashes.
C2_NoUnescapedSpecial ==
  pc = "escaped" =>
    \A j \in 1..Len(escaped) :
      escaped[j] \in { "&", "%", "$", "#", "{", "}" } => EscapedAt(escaped, j)

(***************************************************************************)
(* Reading a document                                                      *)
(***************************************************************************)

\* The one element of a one-element set of positions.
only(S) == CHOOSE i \in S : TRUE

documentclass_marker ==
  << "\\", "d", "o", "c", "u", "m", "e", "n", "t", "c", "l", "a", "s", "s" >>
begin_document_marker ==
  << "\\", "b", "e", "g", "i", "n", "{", "d", "o", "c", "u", "m", "e", "n", "t", "}" >>
end_document_marker ==
  << "\\", "e", "n", "d", "{", "d", "o", "c", "u", "m", "e", "n", "t", "}" >>

(***************************************************************************)
(* Claims about the document                                               *)
(***************************************************************************)

\* The text fields of a record, in document order: what the claim says is
\* escaped, each value once.
ExperienceFields(exp) ==
  << exp.company, exp.location, exp.position, exp.period >> \o exp.description

ProjectFields(project) ==
  << project.name, project.period >>
    \o (IF "description" \in DOMAIN project THEN project.description ELSE << >>)

TextFields(data) ==
  LET pi == data.personal_info
      ed == data.education
      ai == data.additional_information
  IN  << pi.name, pi.phone, pi.email, pi.location, pi.website >>
      \o << ed.institution, ed.location, ed.degree, ed.period,
            join(<< ",", " " >>, ed.details.core_modules), ed.details.grade >>
      \o flatten([ i \in 1..Len(data.professional_experience) |->
                     ExperienceFields(data.professional_experience[i]) ])
      \o flatten([ i \in 1..Len(data.project_experience) |->
                     ProjectFields(data.project_experience[i]) ])
      \o << join(<< ",", " " >>,
                 [ i \in 1..Len(ai.languages) |->
                     ai.languages[i].language \o << " ", "(" >>
                       \o ai.languages[i].proficiency \o << ")" >> ]),
            join(<< ",", " " >>, ai.skills) >>

\* C3: in the document generate_resume_latex produces, escape_latex was called
\* once for every text field of the record (the joined lists counting as one
\* field each) and for nothing else: its arguments are exactly the field
\* values, never text the builders wrote themselves.
C3_EachFieldEscapedOnce ==
  pc = "generated" => escape_calls = TextFields(resume_data)

\* A record with a field that needs escaping, with bullets in both lists, was
\* generated.
C3_Witness ==
  /\ pc = "generated"
  /\ \E i \in 1..Len(escape_calls) : escape_latex(escape_calls[i]) # escape_calls[i]
  /\ Len(resume_data.professional_experience) > 0
  /\ resume_data.professional_experience[1].description # << >>
  /\ Len(resume_data.project_experience) > 0
  /\ "description" \in DOMAIN resume_data.project_experience[1]

\* The first line of each section block.
SectionStart(title) ==
  << "\\", "s", "e", "c", "t", "i", "o", "n", "{" >> \o title \o << "}", "\n" >>

heading_start == << "\\", "b", "e", "g", "i", "n", "{", "c", "e", "n", "t", "e", "r", "}", "\n" >>
education_start == SectionStart(<< "E", "D", "U", "C", "A", "T", "I", "O", "N" >>)
experience_start ==
  SectionStart(<< "P", "R", "O", "F", "E", "S", "S", "I", "O", "N", "A", "L", " ",
                  "E", "X", "P", "E", "R", "I", "E", "N", "C", "E" >>)
project_start ==
  SectionStart(<< "P", "R", "O", "J", "E", "C", "T", " ",
                  "E", "X", "P", "E", "R", "I", "E", "N", "C", "E" >>)
additional_start ==
  SectionStart(<< "A", "D", "D", "I", "T", "I", "O", "N", "A", "L", " ",
                  "I", "N", "F", "O", "R", "M", "A", "T", "I", "O", "N" >>)

\* Where the block that holds the one occurrence of its first markup line
\* begins: the comment line before it opens the block.
BlockStart(doc, start, block) ==
  only(occurrences(doc, start)) - only(occurrences(block, start)) + 1

\* C4: the document is the static header, then the Heading, Education,
\* Professional Experience, Project Experience and Additional Information
\* blocks, then the static footer; each block occurs exactly once, in this
\* order, also for empty sequences, and is the block built from its part of
\* the record.
C4_FixedOrder ==
  pc = "generated" =>
    LET doc == latex_content
        hd == generate_heading(resume_data.personal_info).latex
        ed == generate_education(resume_data.education).latex
        ex == generate_professional_experience(resume_data.professional_experience).latex
        pr == generate_project_experience(resume_data.project_experience).latex
        ad == generate_additional_information(resume_data.additional_information).latex
        p1 == BlockStart(doc, heading_start, hd)
        p2 == BlockStart(doc, education_start, ed)
        p3 == BlockStart(doc, experience_start, ex)
        p4 == BlockStart(doc, project_start, pr)
        p5 == BlockStart(doc, additional_start, ad)
        p6 == Len(doc) - Len(generate_latex_footer) + 1
    IN  /\ Cardinality(occurrences(doc, heading_start)) = 1
        /\ Cardinality(occurrences(doc, education_start)) = 1
        /\ Cardinality(occurrences(doc, experience_start)) = 1
        /\ Cardinality(occurrences(doc, project_start)) = 1
        /\ Cardinality(occurrences(doc, additional_start)) = 1
        /\ SubSeq(doc, 1, p1 - 1) = generate_latex_header
        /\ SubSeq(doc, p1, p2 - 1) = hd
        /\ SubSeq(doc, p2, p3 - 1) = ed
        /\ SubSeq(doc, p3, p4 - 1) = ex
        /\ SubSeq(doc, p4, p5 - 1) = pr
        /\ SubSeq(doc, p5, p6 - 1) = ad
        /\ SubSeq(doc, p6, Len(doc)) = generate_latex_footer

\* A document was generated from a record with no experience and no project.
C4_Witness ==
  /\ pc = "generated"
  /\ resume_data.professional_experience = << >>
  /\ resume_data.project_experience = << >>
  /\ Cardinality(occurrences(latex_content, experience_start)) = 1

\* No field of the record holds a markup-significant character.
PlainRecord(data) ==
  \A i \in 1..Len(TextFields(data)) :
    \A k \in 1..Len(TextFields(data)[i]) : TextFields(data)[i][k] \notin MarkupChars

\* C5: for a record whose fields hold no markup-significant character, the
\* document has exactly one \documentclass, one \begin{document}, one
\* \end{document}, and as many '{' as '}'.
C5_MinimalRoundTrip ==
  (pc = "generated" /\ PlainRecord(resume_data)) =>
    /\ Cardinality(occurrences(latex_content, documentclass_marker)) = 1
    /\ Cardinality(occurrences(latex_content, begin_document_marker)) = 1
    /\ Cardinality(occurrences(latex_content, end_document_marker)) = 1
    /\ count(latex_content, "{") = count(latex_content, "}")

\* The minimal record (no experience, no project, no module, language or
\* skill) was generated.
C5_Witness ==
  /\ pc = "generated"
  /\ PlainRecord(resume_data)
  /\ resume_data.professional_experience = << >>
  /\ resume_data.project_experience = << >>
  /\ resume_data.additional_information.skills = << >>
  /\ count(latex_content, "{") > 0

(***************************************************************************)
(* Claims about the list builders                                          *)
(***************************************************************************)

\* The k-th smallest element of a set of positions.
Nth(S, k) == CHOOSE i \in S : Cardinality({ j \in S : j < i }) = k - 1

\* s holds pat at position i.
HoldsAt(s, i, pat) ==
  /\ i + Len(pat) - 1 <= Len(s)
  /\ \A k \in 1..Len(pat) : s[i + k - 1] = pat[k]

\* The part of block that belongs to the k-th of n records, the records
\* starting where `heads` says.
RecordPart(block, heads, k, n) ==
  SubSeq(block, Nth(heads, k), IF k < n THEN Nth(heads, k + 1) - 1 ELSE Len(block))

subheading_marker ==
  << "\\", "r", "e", "s", "u", "m", "e", "S", "u", "b", "h", "e", "a", "d", "i", "n", "g", "\n" >>
project_heading_marker ==
  << "\\", "r", "e", "s", "u", "m", "e", "P", "r", "o", "j", "e", "c", "t",
     "H", "e", "a", "d", "i", "n", "g", "\n" >>
list_start_marker ==
  << "\\", "r", "e", "s", "u", "m", "e", "I", "t", "e", "m", "L", "i", "s", "t",
     "S", "t", "a", "r", "t", "\n" >>
list_end_marker ==
  << "\\", "r", "e", "s", "u", "m", "e", "I", "t", "e", "m", "L", "i", "s", "t",
     "E", "n", "d", "\n" >>
item_marker == << "\\", "r", "e", "s", "u", "m", "e", "I", "t", "e", "m", "{" >>

\* part holds one \resumeItem line per element of description, in order, each
\* with the escaped element as its content, between one list start and one list
\* end.
HasBulletList(part, description) ==
  LET starts == occurrences(part, list_start_marker)
      ends == occurrences(part, list_end_marker)
      items == occurrences(part, item_marker)
  IN  /\ Cardinality(starts) = 1
      /\ Cardinality(ends) = 1
      /\ only(starts) < only(ends)
      /\ Cardinality(items) = Len(description)
      /\ \A j \in 1..Len(description) :
           /\ only(starts) < Nth(items, j)
           /\ Nth(items, j) < only(ends)
           /\ HoldsAt(part, Nth(items, j) + Len(item_marker),
                      escape_latex(description[j]) \o << "}", "\n" >>)

\* part holds no bullet-list markup at all.
HasNoBulletList(part) ==
  /\ occurrences(part, list_start_marker) = { }
  /\ occurrences(part, list_end_marker) = { }
  /\ occurrences(part, item_marker) = { }

\* C6: generate_professional_experience emits one \resumeSubheading record per
\* entry, in input order (the k-th record opens with the k-th company); the
\* record of an entry with a non-empty description holds the bullet list, one
\* \resumeItem line per description item in order, and the record of an entry
\* with an empty description holds no bullet-list markup.
C6_ExperienceBullets ==
  pc = "experience_generated" =>
    LET heads == occurrences(latex_content, subheading_marker)
        n == Len(experiences)
    IN  /\ Cardinality(heads) = n
        /\ \A k \in 1..n :
             LET part == RecordPart(latex_content, heads, k, n)
                 exp == experiences[k]
             IN  /\ HoldsAt(part, Len(subheading_marker) + 1,
                            << " ", " ", " ", " ", " ", " ", "{" >>
                              \o escape_latex(exp.company) \o << "}", "{" >>)
                 /\ IF exp.description # << >>
                    THEN HasBulletList(part, exp.description)
                    ELSE HasNoBulletList(part)

\* Two entries were built, one with bullets and one without.
C6_Witness ==
  /\ pc = "experience_generated"
  /\ Len(experiences) = 2
  /\ Len(experiences[1].description) = 2
  /\ experiences[2].description = << >>
  /\ Cardinality(occurrences(latex_content, item_marker)) = 2

\* Only blanks and line breaks lie between positions a and b of s.
OnlyBlanksBetween(s, a, b) ==
  \A i \in (a + 1)..(b - 1) : s[i] \in { " ", "\n" }

\* C7: generate_project_experience emits one \resumeProjectHeading record per
\* project, in input order (the k-th record holds the k-th name); the record
\* holds the bullet list exactly when the entry has the key 'description': one
\* \resumeItem line per item in order, and for a present but empty description
\* the list start immediately followed by the list end.
C7_ProjectBullets ==
  pc = "project_generated" =>
    LET heads == occurrences(latex_content, project_heading_marker)
        n == Len(projects)
    IN  /\ Cardinality(heads) = n
        /\ \A k \in 1..n :
             LET part == RecordPart(latex_content, heads, k, n)
                 project == projects[k]
             IN  /\ HoldsAt(part, Len(project_heading_marker) + 1,
                            << " ", " ", " ", " ", " ", " ", " ", " ", "{",
                               "\\", "t", "e", "x", "t", "b", "f", "{" >>
                              \o escape_latex(project.name) \o << "}", "}", "{" >>)
                 /\ IF "description" \in DOMAIN project
                    THEN /\ HasBulletList(part, project.description)
                         /\ project.description = << >> =>
                              OnlyBlanksBetween(part,
                                only(occurrences(part, list_start_marker))
                                  + Len(list_start_marker) - 1,
                                only(occurrences(part, list_end_marker)))
                    ELSE HasNoBulletList(part)

\* A project with a present but empty description and one without the key
\* were built.
C7_Witness ==
  /\ pc = "project_generated"
  /\ Len(projects) = 2
  /\ "description" \in DOMAIN projects[1]
  /\ projects[1].description = << >>
  /\ "description" \notin DOMAIN projects[2]
  /\ Cardinality(occurrences(latex_content, list_start_marker)) = 1

(***************************************************************************)
(* Claims about the joined lists                                           *)
(***************************************************************************)

\* The items with a comma and a space between each two of them.
CommaSpaceJoined(items) ==
  flatten([ i \in 1..Len(items) |->
              IF i = 1 THEN items[i] ELSE << ",", " " >> \o items[i] ])

NamePlusProficiency(languages) ==
  [ i \in 1..Len(languages) |->
      languages[i].language \o << " ", "(" >> \o languages[i].proficiency \o << ")" >> ]

core_modules_line == << "\\", "r", "e", "s", "u", "m", "e", "I", "t", "e", "m", "{",
                        "C", "o", "r", "e", " ", "M", "o", "d", "u", "l", "e", "s", ":", " " >>
languages_line == << "\\", "t", "e", "x", "t", "b", "f", "{",
                     "L", "a", "n", "g", "u", "a", "g", "e", "s", ":", "}", " " >>
skills_line == << "\\", "t", "e", "x", "t", "b", "f", "{", "S", "k", "i", "l", "l", "s", ":", "}", " " >>
line_end == << " ", "\\", "\\", " ", "\\", "v", "s", "p", "a", "c", "e", "{", "3", "p", "t", "}", "\n" >>

\* C8: the education builder joins the core modules with comma-space and
\* escapes the joined string in one call, putting the result on one line; the
\* additional-information builder does the same with the 'name (proficiency)'
\* pairs and with the skill names. So two lists with the same join give the
\* same block.
C8_JoinedThenEscaped ==
  /\ pc = "education_generated" =>
       LET joined == CommaSpaceJoined(education.details.core_modules)
       IN  /\ Len(escape_calls) = 6
           /\ escape_calls[5] = joined
           /\ Cardinality(occurrences(latex_content,
                core_modules_line \o escape_latex(joined) \o << "}", "\n" >>)) = 1
           /\ \A other \in ModuleLists :
                CommaSpaceJoined(other) = joined =>
                  generate_education(
                    [ education EXCEPT !.details.core_modules = other ]).latex
                  = latex_content
  /\ pc = "additional_generated" =>
       LET langs == CommaSpaceJoined(NamePlusProficiency(additional_info.languages))
           skills == CommaSpaceJoined(additional_info.skills)
       IN  /\ escape_calls = << langs, skills >>
           /\ Cardinality(occurrences(latex_content,
                languages_line \o escape_latex(langs) \o line_end)) = 1
           /\ Cardinality(occurrences(latex_content,
                skills_line \o escape_latex(skills) \o line_end)) = 1
           /\ \A other \in SkillLists :
                CommaSpaceJoined(other) = skills =>
                  generate_additional_information(
                    [ additional_info EXCEPT !.skills = other ]).latex
                  = latex_content

\* The education block of the one module 'A, B' was built, and it is the block
\* of the two modules 'A' and 'B'.
C8_Witness ==
  /\ pc = "education_generated"
  /\ education.details.core_modules = << << "A", ",", " ", "B" >> >>
  /\ latex_content =
       generate_education(
         [ education EXCEPT !.details.core_modules = << << "A" >>, << "B" >> >> ]).latex

(***************************************************************************)
(* Claims about the output file name                                       *)
(***************************************************************************)

\* The name, each space turned into a hyphen and each other character outside
\* [A-Za-z0-9-] into an underscore.
SlugChars(name) ==
  [ i \in 1..Len(name) |->
      IF name[i] = " " THEN "-"
      ELSE IF name[i] \in FilenameChars THEN name[i]
      ELSE "_" ]

\* stem is m without its leading and trailing underscores.
IsTrimmed(stem, m) ==
  \E a \in 0..Len(m) : \E b \in 0..(Len(m) - a) :
    /\ stem = SubSeq(m, a + 1, Len(m) - b)
    /\ \A i \in 1..a : m[i] = "_"
    /\ \A i \in (Len(m) - b + 1)..Len(m) : m[i] = "_"
    /\ stem # << >> => (stem[1] # "_" /\ stem[Len(stem)] # "_")

\* main took the default name: no -o, or an empty one.
DefaultNameTaken ==
  pc = "output_file_determined" /\ args_output \in { None, << >> }

\* C9: the default file name is the slug of the person's name (spaces to
\* hyphens, then characters outside [A-Za-z0-9-] to underscores, then leading
\* and trailing underscores trimmed) followed by '_resume.tex'; 'John Doe'
\* gives 'John-Doe_resume.tex' and 'Mary Jane Smith' gives
\* 'Mary-Jane-Smith_resume.tex'; a custom output path, when given, is the
\* file name instead.
C9_FilenameSlug ==
  LET name == resume_data.personal_info.name
      n == Len(output_file) - Len(resume_tex)
  IN  /\ DefaultNameTaken =>
           /\ n >= 0
           /\ SubSeq(output_file, n + 1, Len(output_file)) = resume_tex
           /\ IsTrimmed(SubSeq(output_file, 1, n), SlugChars(name))
           /\ name = JohnDoe =>
                output_file = << "J", "o", "h", "n", "-", "D", "o", "e" >> \o resume_tex
           /\ name = MaryJaneSmith =>
                output_file = << "M", "a", "r", "y", "-", "J", "a", "n", "e", "-",
                                 "S", "m", "i", "t", "h" >> \o resume_tex
      /\ (pc = "output_file_determined" /\ args_output = custom_path) =>
           output_file = custom_path

\* The default name of a name with an underscore at an end and a character
\* outside the class was taken.
C9_Witness ==
  /\ DefaultNameTaken
  /\ resume_data.personal_info.name = << "_", "a", "'" >>
  /\ output_file = << "a" >> \o resume_tex

\* C10 as stated: "Mary  Jane O'Brien" gives 'Mary-_Jane_O_Brien_resume.tex'.
C10_AsStated ==
  (DefaultNameTaken /\ resume_data.personal_info.name = MaryJaneOBrien) =>
    output_file = << "M", "a", "r", "y", "-", "_", "J", "a", "n", "e", "_", "O", "_",
                     "B", "r", "i", "e", "n" >> \o resume_tex

\* C10, amended: "Mary  Jane O'Brien" gives 'Mary--Jane-O_Brien_resume.tex':
\* every space, the extra one too, becomes a hyphen, and only the apostrophe
\* becomes an underscore.
C10_SpacesToHyphens ==
  (DefaultNameTaken /\ resume_data.personal_info.name = MaryJaneOBrien) =>
    output_file = << "M", "a", "r", "y", "-", "-", "J", "a", "n", "e", "-", "O", "_",
                     "B", "r", "i", "e", "n" >> \o resume_tex

\* The default name of "Mary  Jane O'Brien" was taken.
C10_Witness ==
  /\ DefaultNameTaken
  /\ resume_data.personal_info.name = MaryJaneOBrien
  /\ Len(output_file) = Len(MaryJaneOBrien) + Len(resume_tex)

(***************************************************************************)
(* Reading the outcome of validate_latex_syntax                            *)
(***************************************************************************)

\* The call has returned for a file that could be read.
Scanned == pc = "validated" /\ file_content # None

\* The kinds of the findings in the list.
issue_kinds == IF issues = None THEN { } ELSE { issues[i][1] : i \in 1..Len(issues) }

Reported(kind) == kind \in issue_kinds

\* C11: on each line only the text after an unescaped percent sign is
\* stripped, so a file in which every percent sign is escaped is scanned as
\* it is; and the percent finding is reported exactly when the stripped text
\* still holds a percent sign that no backslash precedes.
C11_OnlyCommentsStripped ==
  Scanned =>
    /\ (findall_unescaped_percent(file_content) = { } => content_no_comments = file_content)
    /\ (Reported("percent") <=> findall_unescaped_percent(content_no_comments) # { })

\* C12: the ampersand finding is reported exactly when, somewhere after the
\* start of a \begin{document}, there is an ampersand with no backslash right
\* before it and no word character right after it; without \begin{document}
\* there is no such finding.
C12_AmpersandFinding ==
  Scanned =>
    (Reported("ampersand") <=>
       \E b \in occurrences(file_content, begin_document_marker) :
         \E i \in (b + 1)..Len(file_content) :
           /\ file_content[i] = "&"
           /\ file_content[i - 1] # "\\"
           /\ (i = Len(file_content) \/ file_content[i + 1] \notin WordChars))

\* An ampersand before \begin{document} and one, at the end of the file, after
\* it: one match is reported.
C12_Witness ==
  /\ Scanned
  /\ file_content = << "&" >> \o begin_document_marker \o << "&" >>
  /\ issues[1][1] = "ampersand" /\ issues[1][2] = 1

\* C13: the brace finding is reported if and only if the number of opening
\* braces in the file differs from the number of closing ones, wherever they
\* stand and whatever precedes them.
C13_BraceFinding ==
  Scanned =>
    (Reported("braces") <=>
       Cardinality({ i \in 1..Len(file_content) : file_content[i] = "{" })
       # Cardinality({ i \in 1..Len(file_content) : file_content[i] = "}" }))

\* A closing brace before an opening one gets no finding; neither do braces
\* that are both escaped.
C13_Witness ==
  /\ Scanned
  /\ file_content = << "}", "{" >>
  /\ ~Reported("braces")

\* C14: a call never changes the scanned file; it returns pass exactly when the
\* file could be read and the list of findings is empty; the findings are of
\* four kinds, and the one for required elements is there exactly when one of
\* \documentclass, \begin{document}, \end{document} is absent and lists the
\* absent ones.
C14_PassIffNoFindings ==
  [][ /\ file_content' = file_content
      /\ pc' = "validated" =>
           /\ valid' <=> (file_content' # None /\ issues' = << >>)
           /\ file_content' # None =>
                /\ \A i \in 1..Len(issues') :
                     issues'[i][1] \in { "percent", "ampersand", "braces", "missing" }
                /\ (\E i \in 1..Len(issues') : issues'[i][1] = "missing")
                   <=> (\E m \in { documentclass_marker, begin_document_marker,
                                   end_document_marker } :
                          occurrences(file_content', m) = { })
                /\ \A i \in 1..Len(issues') :
                     issues'[i][1] = "missing" =>
                       \A k \in 1..Len(issues'[i][2]) :
                         occurrences(file_content', issues'[i][2][k]) = { } ]_vars

\* A file with the three required elements and nothing else passes.
C14_Witness ==
  /\ Scanned
  /\ valid = TRUE
  /\ file_content = documentclass_marker \o begin_document_marker \o end_document_marker

(***************************************************************************)
(* Reading the outcome of compile_latex_to_pdf                             *)
(***************************************************************************)

\* The call is over: it returned a value or an interrupt left it.
CompileOver == pc = "returned"

\* The compiled artifacts that exist in a set of files.
Artifacts(files) == { f \in files : f[3] = ".pdf" }

\* The compiler ran to its end, with return code zero, and left the artifact
\* in the working directory.
CompilerSucceeded ==
  /\ result # None
  /\ result[1] = 0
  /\ << temp_dir, latex_name(latex_file), ".pdf" >> \in fs

\* C15: whenever a call that created the temporary directory is over, the
\* directory and its files are gone and the working directory is the one the
\* call started in.
C15_TempDirRemovedAndCwdRestored ==
  (CompileOver /\ temp_dir # None) =>
    /\ temp_dir \notin dirs
    /\ \A f \in fs : f[1] # temp_dir
    /\ cwd = environment.cwd

\* C16: a call that returns success has put <stem>.pdf into the directory of
\* the source; a call after which the compiler had failed has put an artifact
\* nowhere.
C16_ArtifactBesideSource ==
  [][ pc' = "returned" =>
        /\ returned' = "True" =>
             << latex_dir(latex_file), latex_name(latex_file), ".pdf" >> \in fs'
        /\ ~CompilerSucceeded => Artifacts(fs') = { } ]_vars

\* The invocations of the compiler among the commands run.
CompilerCalls(calls) == { k \in 1..Len(calls) : calls[k][2] = "-interaction=nonstopmode" }

Consent == { << "y" >>, << "Y" >>, << "y", "e", "s" >>, << " ", "Y", "E", "S", " " >> }

\* C18: no compiler is found exactly when pdflatex is not on the path and
\* none of the fallback locations exists, and the first that exists is taken;
\* a call that found none returns failure, has created no temporary
\* directory, has run no compiler, and has run a command only after the user
\* consented.
C18_NoCompilerNoInstallWithoutConsent ==
  /\ pc # "compile_latex_to_pdf" =>
       /\ pdflatex_path = None <=>
            (~environment.which /\ \A k \in 1..6 : common_paths[k] \notin environment.existing)
       /\ (pdflatex_path # None /\ environment.which) => pdflatex_path = << "pdflatex" >>
       /\ (pdflatex_path # None /\ ~environment.which) =>
            \E k \in 1..6 : /\ pdflatex_path = common_paths[k]
                            /\ common_paths[k] \in environment.existing
                            /\ \A j \in 1..(k - 1) : common_paths[j] \notin environment.existing
  /\ (pc # "compile_latex_to_pdf" /\ pdflatex_path = None) =>
       /\ temp_dir = None /\ dirs = Dirs /\ cwd = environment.cwd
       /\ \A k \in 1..Len(subprocess_calls) :
            subprocess_calls[k] \in { brew_install, which_apt_get, apt_get_update,
                                      apt_get_install, which_yum, yum_install }
       /\ subprocess_calls # << >> => user_input \in Consent
       /\ CompileOver => returned = "False"

\* The user consented, the installation went through, and the call still
\* returned failure without a compiler run.
C18_Witness ==
  /\ CompileOver
  /\ pdflatex_path = None
  /\ user_input = << " ", "Y", "E", "S", " " >>
  /\ subprocess_calls = << which_apt_get, apt_get_update, apt_get_install >>
  /\ environment.install_failure = "none"
  /\ returned = "False"

(***************************************************************************)
(* Reading a run of main                                                   *)
(***************************************************************************)

\* The input file is missing, is not JSON, or holds a record that lacks a key.
InputInError ==
  \/ json_file[1] \in { "missing", "invalid JSON" }
  \/ json_file[1] = "JSON" /\ json_file[2] \in IncompleteRecords

\* The process is over.
Exited == pc = "exited"

\* The document was written to the output file.
Written == \E k \in 1..Len(reports) : reports[k] = "Resume generated successfully"

\* validate_latex_syntax was called, and it made findings.
CheckerRan == issues # None
CheckerFoundIssues == CheckerRan /\ issues # << >>

\* C19: with an input in error no step creates or changes the output file, the
\* run never gets to the writing, and it ends with a non-zero exit status and
\* a report of the error; and whenever the output file is written, what is
\* written is the whole document, built before.
C19_InputErrorsAreFatal ==
  [][ /\ InputInError =>
           /\ file_content' = file_content
           /\ fs' = fs
           /\ pc' \in { "main", "generate", "exited" }
           /\ pc' = "exited" =>
                /\ exit_code' # 0
                /\ reports' # << >>
                /\ reports'[Len(reports')] \in { "not found", "Invalid JSON", "Traceback: KeyError" }
      /\ file_content' # file_content =>
           /\ file_content' = latex_content
           /\ latex_content = generate_resume_latex(resume_data).latex ]_vars

\* A record without a key: exit status 1, a report, and the file that was
\* there before the run is as it was.
C19_Witness ==
  /\ Exited
  /\ json_file[1] = "JSON"
  /\ json_file[2] \in IncompleteRecords
  /\ exit_code = 1
  /\ reports = << "Traceback: KeyError" >>
  /\ file_content = old_content

\* C20: once the document is written, the checker has run exactly when -v was
\* given; if it made findings the run ends with status 1, the document stays
\* as written and no compile step was started; otherwise the run ends with
\* status 0 unless -p was given and the compile step did not succeed.
C20_ValidationFatalOnlyOnRequest ==
  (Exited /\ Written) =>
    /\ CheckerRan <=> args_validate
    /\ CheckerFoundIssues =>
         /\ exit_code = 1
         /\ file_content = latex_content
         /\ returned = "not called" /\ subprocess_calls = << >> /\ temp_dir = None
    /\ ~CheckerFoundIssues => (exit_code = 0 <=> (~args_pdf \/ returned = "True"))

\* -v and -p were given, the checker made findings: status 1, no compile step.
C20_Witness ==
  /\ Exited /\ Written
  /\ args_validate /\ args_pdf
  /\ CheckerFoundIssues
  /\ exit_code = 1
  /\ returned = "not called"
  /\ file_content = latex_content

(***************************************************************************)
(* Reading a run of main in check mode                                     *)
(***************************************************************************)

\* The named file can be read and none of the four checks has a finding.
CheckerPasses ==
  /\ args_input_file # None
  /\ file_content # None
  /\ check_content(file_content).issues = << >>

\* C21: with -c the one step of main ends the process, with status 0 exactly
\* when a file was named, could be read and has no finding, and with status 1
\* otherwise; the step loads no record, builds no document, writes no file,
\* names no output file and runs no command, whatever -v, -p and -o say.
C21_CheckOnly ==
  [][ (pc = "main" /\ args_check) =>
        /\ pc' = "exited"
        /\ exit_code' = IF CheckerPasses THEN 0 ELSE 1
        /\ resume_data' = resume_data
        /\ latex_content' = latex_content /\ escape_calls' = escape_calls
        /\ output_file' = None
        /\ file_content' = file_content /\ fs' = fs /\ dirs' = dirs /\ cwd' = cwd
        /\ subprocess_calls' = << >> /\ returned' = "not called" /\ temp_dir' = None ]_vars

\* A run of main in check mode has ended.
CheckModeOver == pc = "exited" /\ args_check

\* -c with -v, -p and -o on a file that passes: status 0 and nothing else done.
C21_Witness ==
  /\ CheckModeOver
  /\ args_validate /\ args_pdf /\ args_output = custom_path
  /\ args_input_file = tex_path
  /\ file_content = required_elements[1] \o required_elements[2] \o required_elements[3]
  /\ exit_code = 0
  /\ subprocess_calls = << >> /\ output_file = None

(***************************************************************************)
(* Reading the checker's verdict on a generated document                   *)
(***************************************************************************)

\* The file the checker was called on is the document generate_resume_latex
\* returned for the loaded record.
CheckedTheGeneratedDocument ==
  /\ Written /\ CheckerRan
  /\ file_content = latex_content

\* C22: whenever the checker has run on the written document of a complete
\* record, it has passed it, with an empty list of findings.
C22_GeneratorAndCheckerAgree ==
  CheckedTheGeneratedDocument => (issues = << >> /\ valid = TRUE)

(***************************************************************************)
(* Reading what a call of compile_latex_to_pdf does outside its temporary  *)
(* directory                                                               *)
(***************************************************************************)

\* The files that are not in the temporary directory.
OutsideTempDir(files) == { f \in files : f[1] # TempDir }

\* The artifact in the directory the call started in.
ArtifactAtOrigin == output_pdf(environment.cwd, latex_file)

\* C23: no step of a call adds or removes a file outside the temporary
\* directory other than the artifact <stem>.pdf in the directory the call
\* started in, and only the step that returns True adds that one.
C23_OnlyArtifactAdded ==
  [][ /\ OutsideTempDir(fs') \ { ArtifactAtOrigin } = OutsideTempDir(fs) \ { ArtifactAtOrigin }
      /\ returned' # "True" => OutsideTempDir(fs') = OutsideTempDir(fs) ]_vars

====
